---- MODULE Spec2Model ----
(***************************************************************************)
(* A model of the exec_agent tool-calling core: ToolPolicy.evaluate,       *)
(* ToolRegistry, ToolResult, ToolExecutor.execute, RetrieveTool.run,       *)
(* AgentRunner.run, the response normalizer _extract_response_payload and  *)
(* LiteLLMChatClient.complete.                                             *)
(*                                                                         *)
(* Spec is a run on an abstract client, ClientSpec a run on the chat       *)
(* client, PairSpec two runs on one runner.  PolicySpec, ExecSpec,         *)
(* NormSpec, RegistrySpec, ResultSpec and RetrieveSpec are evaluate,       *)
(* execute, the normalizer, the registry, ToolResult and RetrieveTool.run  *)
(* on their own.                                                           *)
(*                                                                         *)
(* A run is a coroutine; its suspension points are the awaits of           *)
(* client.complete (runner.py:314) and of tool.run (executor.py:63).  Each *)
(* action below is the code between two suspension points.                 *)
(*                                                                         *)
(* Text is a sequence of one-character strings; a JSON document is a       *)
(* sequence of tokens; Python's None is the sentinel None.                 *)
(***************************************************************************)
EXTENDS Integers, Sequences, FiniteSets, TLC

\* ------------------------------------------------------------------ bounds

\* AgentRunner.max_steps ranges over 0..MaxSteps.
MaxSteps == 2
\* ToolPolicy.max_calls ranges over 0..MaxCallsLimit.
MaxCallsLimit == 2
\* The model issues at most MaxIssued tool calls in one run (over all rounds).
MaxIssued == 2
\* call_count arguments tried on evaluate range over 0..MaxCount.
MaxCount == 3
\* The followed (spec, auth, call_count) is evaluated at most MaxEvals times.
MaxEvals == 2
\* An output list has at most MaxItems items.
MaxItems == 2
\* register is called at most MaxRegistered times on one registry.
MaxRegistered == 3

\* ------------------------------------------------------------------ values

\* Python's None, where a text may stand.
None == <<"<None>">>

\* The calls of AgentRunner.run on one runner; a specification starts those it
\* names and leaves the others "Off".
Runs == {"r1", "r2"}

\* str.strip(): the characters it removes that the model uses.
Whitespace == {" ", "\t", "\n"}

RECURSIVE lstrip(_)
lstrip(t) ==
    IF t # <<>> /\ Head(t) \in Whitespace THEN lstrip(Tail(t)) ELSE t

RECURSIVE rstrip(_)
rstrip(t) ==
    IF t # <<>> /\ t[Len(t)] \in Whitespace
    THEN rstrip(SubSeq(t, 1, Len(t) - 1))
    ELSE t

strip(t) == rstrip(lstrip(t))

\* Optional[set[str]] (ToolPolicy.allowed_tools) and Optional[ToolAuthContext].
NoAllowList == [configured |-> FALSE, names |-> {}]
AllowList(S) == [configured |-> TRUE, names |-> S]
NoAuth == [present |-> FALSE, scopes |-> {}]
AuthContext(S) == [present |-> TRUE, scopes |-> S]

ToolSpec(n, sc) == [name |-> n, scopes |-> sc]

\* ToolPolicyDecision
Decision(a, why) == [allow |-> a, reason |-> why]

\* ------------------------------------------------------------------ tools/base.py

\* Python's None, where an identifier (a name, an id, an error code) may stand.
NoneId == "<None>"

\* json.dumps({"error": error}, ensure_ascii=True), as tokens.
json_error(error) == <<"{\"error\": \"", error, "\"}">>

\* ToolResult.failure(name, error)
failure(name, error) ==
    [name |-> name, ok |-> FALSE, content |-> json_error(error),
     data |-> None, error |-> error]

\* json.dumps(data, ensure_ascii=True) of the data values the model's tools return.
json_dumps(data) == <<"json:">> \o data

\* ToolResult.from_data(name, data, content=content): content or json.dumps(data)
from_data(name, data, content) ==
    [name |-> name, ok |-> TRUE,
     content |-> IF content # None /\ content # <<>> THEN content ELSE json_dumps(data),
     data |-> data, error |-> NoneId]

\* ------------------------------------------------------------------ tools/policies.py

\* evaluate without the scope checks.
evaluate_ScopesIgnored(p, spec, au, cc) ==
    IF cc >= p.max_calls
    THEN Decision(FALSE, "tool_call_limit_reached")
    ELSE IF spec.name \in p.denied_tools
    THEN Decision(FALSE, "tool_denied")
    ELSE IF p.allowed_tools.configured /\ spec.name \notin p.allowed_tools.names
    THEN Decision(FALSE, "tool_not_allowed")
    ELSE Decision(TRUE, NoneId)

\* evaluate with the allow list consulted before the deny list.
evaluate_NamesSwapped(p, spec, au, cc) ==
    IF cc >= p.max_calls
    THEN Decision(FALSE, "tool_call_limit_reached")
    ELSE IF p.allowed_tools.configured /\ spec.name \notin p.allowed_tools.names
    THEN Decision(FALSE, "tool_not_allowed")
    ELSE IF spec.name \in p.denied_tools
    THEN Decision(FALSE, "tool_denied")
    ELSE IF spec.scopes # {} /\ ~au.present
    THEN Decision(FALSE, "missing_auth_context")
    ELSE IF spec.scopes # {} /\ (spec.scopes \cap au.scopes) = {}
    THEN Decision(FALSE, "missing_required_scope")
    ELSE Decision(TRUE, NoneId)

\* ToolPolicy.evaluate(spec, auth, call_count=call_count)
evaluate(p, spec, au, cc) ==
    IF cc >= p.max_calls
    THEN Decision(FALSE, "tool_call_limit_reached")
    ELSE IF spec.name \in p.denied_tools
    THEN Decision(FALSE, "tool_denied")
    ELSE IF p.allowed_tools.configured /\ spec.name \notin p.allowed_tools.names
    THEN Decision(FALSE, "tool_not_allowed")
    ELSE IF spec.scopes # {} /\ ~au.present
    THEN Decision(FALSE, "missing_auth_context")
    ELSE IF spec.scopes # {} /\ (spec.scopes \cap au.scopes) = {}
    THEN Decision(FALSE, "missing_required_scope")
    ELSE Decision(TRUE, NoneId)

\* evaluate remembering the name it was asked about in the policy's deny set.
evaluate_effect_Remembers(p, spec, au, cc) ==
    [policy |-> [p EXCEPT !.denied_tools = @ \cup {spec.name}],
     spec |-> spec, auth |-> au]

\* The objects evaluate was handed, as it leaves them: it assigns to no field of
\* the policy, of the spec or of the auth context.
evaluate_effect(p, spec, au, cc) == [policy |-> p, spec |-> spec, auth |-> au]

\* ------------------------------------------------------------------ tools/registry.py

\* Absent tool (dict.get's None).
NoTool == [name |-> NoneId, scopes |-> {}]

\* ToolRegistry.get(name): self._tools.get(name), the registry a sequence of
\* tools in registration order, each known by its spec.
get(reg, name) ==
    IF \E i \in 1..Len(reg) : reg[i].name = name
    THEN reg[CHOOSE i \in 1..Len(reg) : reg[i].name = name]
    ELSE NoTool

\* ToolRegistry.register(tool): whether it raised ValueError, and _tools
\* afterwards.
register_Overwrites(reg, tool) ==
    IF \E i \in 1..Len(reg) : reg[i].name = tool.name
    THEN [raised |-> FALSE,
          tools |-> [i \in 1..Len(reg) |->
                        IF reg[i].name = tool.name THEN tool ELSE reg[i]]]
    ELSE [raised |-> FALSE, tools |-> Append(reg, tool)]

register(reg, tool) ==
    IF \E i \in 1..Len(reg) : reg[i].name = tool.name
    THEN [raised |-> TRUE, tools |-> reg]
    ELSE [raised |-> FALSE, tools |-> Append(reg, tool)]

\* ToolRegistry.register_all(tools): register on each tool in turn, the
\* first ValueError ending the loop; tried are the tools register was called
\* with.
RECURSIVE register_all(_, _)
register_all(reg, tools) ==
    IF tools = <<>>
    THEN [raised |-> FALSE, tools |-> reg, tried |-> <<>>]
    ELSE IF register(reg, Head(tools)).raised
    THEN [raised |-> TRUE, tools |-> register(reg, Head(tools)).tools,
          tried |-> <<Head(tools)>>]
    ELSE [raised |-> register_all(register(reg, Head(tools)).tools, Tail(tools)).raised,
          tools |-> register_all(register(reg, Head(tools)).tools, Tail(tools)).tools,
          tried |-> <<Head(tools)>>
                    \o register_all(register(reg, Head(tools)).tools, Tail(tools)).tried]

\* ToolRegistry.list_specs(auth)
list_specs_EveryScope(reg, au) ==
    IF ~au.present \/ au.scopes = {}
    THEN SelectSeq(reg, LAMBDA spec : spec.scopes = {})
    ELSE SelectSeq(reg, LAMBDA spec : spec.scopes \subseteq au.scopes)

list_specs(reg, au) ==
    IF ~au.present \/ au.scopes = {}
    THEN SelectSeq(reg, LAMBDA spec : spec.scopes = {})
    ELSE SelectSeq(reg, LAMBDA spec : spec.scopes = {} \/ spec.scopes \cap au.scopes # {})

\* ------------------------------------------------------------------ Python values

\* The values a transport's payload is made of, each tagged with its kind.
PyNone == [kind |-> "none"]
PyStr(t) == [kind |-> "str", s |-> t]
PyInt(n) == [kind |-> "int", n |-> n]
PyList(items) == [kind |-> "list", items |-> items]
PyDict(f) == [kind |-> "dict", fields |-> f]
\* An object with attributes (a transport's response class).
PyObj(f) == [kind |-> "obj", attrs |-> f]

\* A dict or an object without entries.
NoFields == [k \in {} |-> PyNone]

\* bool(v)
truthy(v) ==
    CASE v.kind = "none" -> FALSE
      [] v.kind = "str" -> v.s # <<>>
      [] v.kind = "int" -> v.n # 0
      [] v.kind = "list" -> v.items # <<>>
      [] v.kind = "dict" -> DOMAIN v.fields # {}
      [] OTHER -> TRUE

\* a or b
py_or(a, b) == IF truthy(a) THEN a ELSE b

\* hash(v) does not raise TypeError: what `v in {...}` asks of v.
hashable(v) == v.kind \notin {"list", "dict"}

\* iter(v) does not raise TypeError.
iterable(v) == v.kind \in {"list", "str", "dict"}

\* The one-token strings of a text, as str values (iterating a str).
RECURSIVE chars(_)
chars(t) == IF t = <<>> THEN <<>> ELSE <<PyStr(<<Head(t)>>)>> \o chars(Tail(t))

\* The keys of a dict in some order, as str values (iterating a dict).
RECURSIVE keys(_)
keys(K) ==
    IF K = {} THEN <<>>
    ELSE LET k == CHOOSE k \in K : TRUE IN <<PyStr(<<k>>)>> \o keys(K \ {k})

\* list(v) of an iterable v.
elements(v) ==
    CASE v.kind = "list" -> v.items
      [] v.kind = "str" -> chars(v.s)
      [] v.kind = "dict" -> keys(DOMAIN v.fields)
      [] OTHER -> <<>>

\* str(v) as a text; the repr of a container is abbreviated.
str_text(v) ==
    CASE v.kind = "str" -> v.s
      [] v.kind = "none" -> <<"None">>
      [] v.kind = "int" -> <<ToString(v.n)>>
      [] v.kind = "list" -> <<"[...]">>
      [] v.kind = "dict" -> <<"{...}">>
      [] OTHER -> <<"<object>">>

\* A text as one identifier.
RECURSIVE join(_)
join(t) == IF t = <<>> THEN "" ELSE Head(t) \o join(Tail(t))

\* str(v) where an identifier stands (ToolCall.id, ToolCall.name).
str(v) == join(str_text(v))

\* json.loads on the argument strings the model uses: an object, an array, a
\* number, null; every other text raises JSONDecodeError.
json_loads(t) ==
    CASE t = <<"{", "\"query\"", ":", "\"hello\"", "}">> ->
            [ok |-> TRUE, value |-> PyDict([k \in {"query"} |-> PyStr(<<"hello">>)])]
      [] t = <<"{", "}">> -> [ok |-> TRUE, value |-> PyDict(NoFields)]
      [] t = <<"[", "1", "]">> -> [ok |-> TRUE, value |-> PyList(<<PyInt(1)>>)]
      [] t = <<"1">> -> [ok |-> TRUE, value |-> PyInt(1)]
      [] t = <<"null">> -> [ok |-> TRUE, value |-> PyNone]
      [] OTHER -> [ok |-> FALSE, value |-> PyNone]

\* ------------------------------------------------------------------ agent/runner.py: the normalizer

\* _get_attr(obj, name, default): dict.get for a dict, getattr otherwise; the
\* built-in kinds have none of the attributes the normalizer asks for.
_get_attr(obj, name, default) ==
    IF obj.kind = "dict"
    THEN (IF name \in DOMAIN obj.fields THEN obj.fields[name] ELSE default)
    ELSE IF obj.kind = "obj" /\ name \in DOMAIN obj.attrs
    THEN obj.attrs[name]
    ELSE default

\* ToolCall(id, name, arguments, arguments_raw)
ToolCall(id, name, arguments, arguments_raw) ==
    [id |-> id, name |-> name, arguments |-> arguments, arguments_raw |-> arguments_raw]

\* try: json.loads(arguments) except JSONDecodeError: {} (runner.py:41-44)
loads_or_empty(parsed) == IF parsed.ok THEN parsed.value ELSE PyDict(NoFields)

\* arguments_obj of a raw arguments value (runner.py:40-48).
arguments_obj(arguments) ==
    IF arguments.kind = "str"
    THEN loads_or_empty(json_loads(arguments.s))
    ELSE IF arguments.kind = "dict"
    THEN arguments
    ELSE PyDict(NoFields)

\* arguments_raw of a raw arguments value (runner.py:39).
arguments_raw(arguments) == IF arguments.kind = "str" THEN arguments ELSE PyNone

\* The ToolCall of raw_call at idx, its name and arguments read from holder
\* (runner.py:31, 34-38, 49-56).
call_from(raw_call, idx, holder, arguments) ==
    ToolCall(str(py_or(_get_attr(raw_call, "call_id", PyNone),
                       _get_attr(raw_call, "id", PyStr(<<"call_" \o ToString(idx)>>)))),
             str(_get_attr(holder, "name", PyStr(<<>>))),
             arguments_obj(arguments),
             arguments_raw(arguments))

\* Where name and arguments are read: the function object if there is one,
\* the call itself otherwise (runner.py:32-38).
holder_of(raw_call, function) == IF function.kind = "none" THEN raw_call ELSE function

call_in(raw_call, idx, holder) ==
    call_from(raw_call, idx, holder, _get_attr(holder, "arguments", PyStr(<<>>)))

\* One pass of the loop of _parse_tool_calls: the ToolCall of raw_call at idx.
parse_tool_call(raw_call, idx) ==
    call_in(raw_call, idx, holder_of(raw_call, _get_attr(raw_call, "function", PyNone)))

RECURSIVE parse_from(_, _)
parse_from(raw_calls, idx) ==
    IF raw_calls = <<>>
    THEN <<>>
    ELSE <<parse_tool_call(Head(raw_calls), idx)>> \o parse_from(Tail(raw_calls), idx + 1)

\* _parse_tool_calls(tool_calls): enumerate raises TypeError on a value that
\* is not iterable.
_parse_tool_calls(tool_calls) ==
    IF iterable(tool_calls)
    THEN [raised |-> FALSE, calls |-> parse_from(elements(tool_calls), 0)]
    ELSE [raised |-> TRUE, calls |-> <<>>]

\* if raw_tool_calls: _parse_tool_calls(raw_tool_calls)
parse_if_any(tool_calls) ==
    IF truthy(tool_calls)
    THEN _parse_tool_calls(tool_calls)
    ELSE [raised |-> FALSE, calls |-> <<>>]

\* dict.get(key) with its default None.
dict_get(d, key) == IF key \in DOMAIN d.fields THEN d.fields[key] ELSE PyNone

\* The text a dict or an object gives under "text": a dict there is looked
\* into for value, then text (runner.py:119-120, 132-133).
inner_text(text) ==
    IF text.kind = "dict"
    THEN py_or(dict_get(text, "value"), dict_get(text, "text"))
    ELSE text

\* [str(text)] if text else []
str_if_any(text) == IF truthy(text) THEN <<str_text(text)>> ELSE <<>>

RECURSIVE _coerce_text_chunks(_)
RECURSIVE coerce_each(_)

\* The dict branch of _coerce_text_chunks (runner.py:117-129).
coerce_dict(text, direct, content) ==
    IF truthy(text) THEN <<str_text(text)>>
    ELSE IF truthy(direct) THEN <<str_text(direct)>>
    ELSE IF truthy(content) THEN _coerce_text_chunks(content)
    ELSE <<>>

\* _coerce_text_chunks(value)
_coerce_text_chunks(value) ==
    CASE value.kind = "str" -> IF value.s # <<>> THEN <<value.s>> ELSE <<>>
      [] value.kind = "dict" ->
            coerce_dict(inner_text(dict_get(value, "text")),
                        dict_get(value, "value"), dict_get(value, "content"))
      [] value.kind = "obj" /\ "text" \in DOMAIN value.attrs ->
            str_if_any(inner_text(value.attrs["text"]))
      [] value.kind = "list" -> coerce_each(value.items)
      [] OTHER -> <<>>

\* The chunks of the items of a list, in order.
coerce_each(items) ==
    IF items = <<>>
    THEN <<>>
    ELSE _coerce_text_chunks(Head(items)) \o coerce_each(Tail(items))

\* _looks_like_tool_call(value)
_looks_like_tool_call(value) ==
    \/ truthy(_get_attr(value, "name", PyNone))
    \/ _get_attr(value, "arguments", PyNone).kind # "none"

\* What a part of the normalizer hands back: whether it raised, the text
\* parts and the tool calls it found.
Found(parts, calls) == [raised |-> FALSE, parts |-> parts, calls |-> calls]
Raise == [raised |-> TRUE, parts |-> <<>>, calls |-> <<>>]

\* The parts and calls of a and then of b; a raise in either is a raise.
both(a, b) ==
    IF a.raised \/ b.raised THEN Raise ELSE Found(a.parts \o b.parts, a.calls \o b.calls)

MessageTypes == {PyStr(<<"message">>), PyStr(<<"output_message">>)}
TextTypes == {PyStr(<<"output_text">>), PyStr(<<"text">>)}

\* One pass of the loop over the content of a message item (runner.py:70-74).
chunk_part(chunk, chunk_type) ==
    IF ~hashable(chunk_type)
    THEN Raise
    ELSE IF chunk_type \in TextTypes
    THEN Found(_coerce_text_chunks(py_or(_get_attr(chunk, "text", PyNone), chunk)), <<>>)
    ELSE Found(_coerce_text_chunks(chunk), <<>>)

\* The loop over the content of a message item (runner.py:69-74).
RECURSIVE chunk_parts(_)
chunk_parts(content) ==
    IF content = <<>>
    THEN Found(<<>>, <<>>)
    ELSE both(chunk_part(Head(content), _get_attr(Head(content), "type", PyStr(<<>>))),
              chunk_parts(Tail(content)))

\* A message item: its content's text, then its tool calls (runner.py:68-77).
message_parts(content, parsed) ==
    IF ~iterable(content)
    THEN Raise
    ELSE both(chunk_parts(elements(content)),
              [raised |-> parsed.raised, parts |-> <<>>, calls |-> parsed.calls])

\* An item that is taken for a tool call (runner.py:79, 86).
call_item(item) == Found(<<>>, _parse_tool_calls(PyList(<<item>>)).calls)

\* One pass of the loop over output (runner.py:66-91).
item_part(item, item_type) ==
    IF ~hashable(item_type)
    THEN Raise
    ELSE IF item_type \in MessageTypes
    THEN message_parts(py_or(_get_attr(item, "content", PyList(<<>>)), PyList(<<>>)),
                       parse_if_any(_get_attr(item, "tool_calls", PyNone)))
    ELSE IF item_type = PyStr(<<"tool_call">>)
    THEN call_item(item)
    ELSE IF item_type \in TextTypes
    THEN Found(str_if_any(_get_attr(item, "text", PyStr(<<>>))), <<>>)
    ELSE IF _looks_like_tool_call(item)
    THEN call_item(item)
    ELSE Found(_coerce_text_chunks(_get_attr(item, "text", PyNone))
               \o (IF truthy(_get_attr(item, "content", PyNone))
                   THEN _coerce_text_chunks(_get_attr(item, "content", PyNone))
                   ELSE <<>>),
               <<>>)

\* The loop over output: the parts and the calls of its items, in order
\* (runner.py:65-91).
RECURSIVE output_parts(_)
output_parts(output) ==
    IF output = <<>>
    THEN Found(<<>>, <<>>)
    ELSE both(item_part(Head(output), _get_attr(Head(output), "type", PyStr(<<>>))),
              output_parts(Tail(output)))

\* choices[0]: a list's first item, a str's first character; a dict has no
\* key 0 (KeyError) and the other kinds have no items (TypeError).
subscriptable(v) == v.kind \in {"list", "str"}
item0(v) == IF v.kind = "list" THEN v.items[1] ELSE PyStr(<<Head(v.s)>>)

\* The content and the tool calls of choices[0].message (runner.py:105-109).
message_part(message) ==
    both(Found(_coerce_text_chunks(_get_attr(message, "content", PyStr(<<>>))), <<>>),
         [raised |-> parse_if_any(py_or(_get_attr(message, "tool_calls", PyList(<<>>)),
                                        PyList(<<>>))).raised,
          parts |-> <<>>,
          calls |-> parse_if_any(py_or(_get_attr(message, "tool_calls", PyList(<<>>)),
                                       PyList(<<>>))).calls])

\* The last branch: choices[0].message (runner.py:103-109).
choice_parts(choices) ==
    IF ~truthy(choices)
    THEN message_part(PyDict(NoFields))
    ELSE IF ~subscriptable(choices)
    THEN Raise
    ELSE message_part(_get_attr(item0(choices), "message", PyDict(NoFields)))

\* "".join(text_parts)
RECURSIVE concat(_)
concat(parts) == IF parts = <<>> THEN <<>> ELSE Head(parts) \o concat(Tail(parts))

\* The (text, tool_calls) the normalizer returns, or that it raised.
Extracted(text, tool_calls) == [raised |-> FALSE, text |-> text, tool_calls |-> tool_calls]
ExtractRaised == [raised |-> TRUE, text |-> <<>>, tool_calls |-> <<>>]

\* The return statement (runner.py:111).
extract_return(found) ==
    IF found.raised
    THEN ExtractRaised
    ELSE Extracted(strip(concat(found.parts)), found.calls)

\* extract_choices collecting the tool calls of choices[0].message also when
\* an earlier branch gave the text.
extract_choices_CallsAlways(response, items, texts) ==
    IF texts # <<>>
    THEN extract_return(both(Found(texts, items.calls),
            Found(<<>>,
                  choice_parts(py_or(_get_attr(response, "choices", PyList(<<>>)),
                                     PyList(<<>>))).calls)))
    ELSE extract_return(both(Found(<<>>, items.calls),
            choice_parts(py_or(_get_attr(response, "choices", PyList(<<>>)), PyList(<<>>)))))

\* After the text field: choices is looked at only without text so far
\* (runner.py:102-111).
extract_choices(response, items, texts) ==
    IF texts # <<>>
    THEN extract_return(Found(texts, items.calls))
    ELSE extract_return(both(Found(<<>>, items.calls),
            choice_parts(py_or(_get_attr(response, "choices", PyList(<<>>)), PyList(<<>>)))))

\* After output_text: the text field is coerced only without text so far
\* (runner.py:98-100).
extract_text(response, items, texts) ==
    IF texts # <<>>
    THEN extract_choices(response, items, texts)
    ELSE extract_choices(response, items,
            _coerce_text_chunks(_get_attr(response, "text", PyStr(<<>>))))

\* After the loop: output_text is used only without text so far, and only a
\* non-empty str (runner.py:93-96).
extract_output_text(response, items, output_text) ==
    IF items.raised
    THEN ExtractRaised
    ELSE IF items.parts = <<>> /\ output_text.kind = "str" /\ truthy(output_text)
    THEN extract_text(response, items, <<output_text.s>>)
    ELSE extract_text(response, items, items.parts)

\* The loop over output (runner.py:61-91).
extract_output(response, output) ==
    IF ~iterable(output)
    THEN ExtractRaised
    ELSE extract_output_text(response, output_parts(elements(output)),
                             _get_attr(response, "output_text", PyStr(<<>>)))

\* _extract_response_payload(response)
_extract_response_payload(response) ==
    extract_output(response,
                   py_or(_get_attr(response, "output", PyList(<<>>)), PyList(<<>>)))

\* ------------------------------------------------------------------ state

VARIABLES
    registry,     \* ToolRegistry._tools, in registration order
    policy,       \* the ToolPolicy the executor holds
    max_steps,    \* AgentRunner.max_steps
    pc,           \* per run: where the coroutine of AgentRunner.run stands
    auth,         \* per run: the auth argument
    messages,     \* per run: the conversation
    call_count,   \* per run: run's call_count
    step,         \* per run: the loop variable of run
    response,     \* per run: the ModelResponse of the current round
    ex_idx,       \* per run: execute's position in calls (1-based)
    ex_results,   \* per run: execute's results
    ex_count,     \* per run: execute's call_count
    result,       \* per run: the AgentResult returned
    requests,     \* per run: how many times client.complete was called
    offered,      \* per run: the specs the latest client.complete was handed
    issued,       \* per run: how many tool calls the model issued
    invocations,  \* per run: the tool.run calls made, in order
    ev_in,        \* the evaluation followed: its (spec, auth, call_count)
    ev_first,     \* the decision of its first evaluation
    ev_last,      \* the decision of its latest evaluation
    ev_n,         \* how many times it was evaluated
    payload,      \* the response handed to _extract_response_payload
    extracted,    \* what _extract_response_payload made of it
    norm_done,    \* whether _extract_response_payload was applied
    cl_pc,        \* where the coroutine of LiteLLMChatClient.complete stands
    cl_log,       \* the transport calls of the current complete, in order
    cl_response,  \* the ModelResponse complete returned
    reg_log,      \* the tools register was called with, in order
    reg_last,     \* the latest call on the registry and its outcome
    built_in,     \* the arguments ToolResult.from_data or failure is called with
    built,        \* the ToolResult it returned
    rt_args,      \* the arguments RetrieveTool.run is called with
    rt_out        \* how RetrieveTool.run ended

shared == <<registry, policy, max_steps>>
runner == <<pc, auth, messages, call_count, step, response, result, requests, offered,
           issued>>
executor == <<ex_idx, ex_results, ex_count, invocations>>
evals == <<ev_in, ev_first, ev_last, ev_n>>
normalizer == <<payload, extracted, norm_done>>
client == <<cl_pc, cl_log, cl_response>>
registrar == <<reg_log, reg_last>>
tooling == <<built_in, built, rt_args, rt_out>>
apart == <<normalizer, client, registrar, tooling>>
vars == <<shared, runner, executor, evals, apart>>

\* ------------------------------------------------------------------ inputs

\* The registered tools: one public, one that needs scope s1.
Tools == <<ToolSpec("retrieve", {}), ToolSpec("admin", {"s1"})>>

\* Names the model may ask for: the registered ones and one that is not.
CallNames == {"retrieve", "admin", "ghost"}
CallIds == {"call_0", "call_1"}
ToolCalls == [id : CallIds, name : CallNames]

\* Non-empty sequences of tool calls, at most n long.
Batches(n) == UNION {[1..k -> ToolCalls] : k \in 1..n}

\* Texts a ModelResponse may carry: empty, blank, padded.
Texts == {<<>>, <<" ">>, <<" ", "d", "\n">>}

UserInput == <<"h", "i">>
\* The system_prompt arguments tried (None or "" would seed no system message).
SystemPrompts == {<<"s", "y", "s">>}

\* What a tool's run may return: a success built by from_data, or a failure
\* of its own (RetrieveTool's missing_query).
ToolReturns(name) ==
    {from_data(name, <<"ok">>, None), failure(name, "missing_query")}

Scopes == {"s1", "s2"}
Auths == {NoAuth} \cup {AuthContext(S) : S \in SUBSET Scopes}

\* ------------------------------------------------------------------ agent/types.py

ChatMessage(role, content, name, tool_call_id, tool_calls) ==
    [role |-> role, content |-> content, name |-> name,
     tool_call_id |-> tool_call_id, tool_calls |-> tool_calls]

ModelResponse(text, tool_calls) == [text |-> text, tool_calls |-> tool_calls]
NoResponse == ModelResponse(None, <<>>)

AgentResult(output, steps, n) ==
    [output |-> output, steps |-> steps, tool_calls_executed |-> n]
NoResult == AgentResult(None, -1, -1)

\* ModelResponse with the payload it was made from.
ClientResponse(text, tool_calls, raw) == [text |-> text, tool_calls |-> tool_calls, raw |-> raw]
NoClientResponse == ClientResponse(None, <<>>, PyNone)

\* ------------------------------------------------------------------ AgentRunner.run

\* run is called: the conversation is seeded (runner.py:307-312).
Begin(r) ==
    /\ pc[r] = "Idle"
    /\ \E system_prompt \in SystemPrompts :
         messages' = [messages EXCEPT ![r] =
            (IF system_prompt # None /\ system_prompt # <<>>
             THEN <<ChatMessage("system", system_prompt, NoneId, NoneId, <<>>)>>
             ELSE <<>>)
            \o <<ChatMessage("user", UserInput, NoneId, NoneId, <<>>)>>]
    /\ call_count' = [call_count EXCEPT ![r] = 0]
    /\ step' = [step EXCEPT ![r] = 0]
    /\ pc' = [pc EXCEPT ![r] = "Requesting"]
    /\ UNCHANGED <<shared, auth, offered, response, result, requests, issued, executor, evals, apart>>

\* RequestModel with the loop running over range(max_steps + 1).
RequestModel_OneMore(r) ==
    /\ pc[r] = "Requesting"
    /\ step[r] <= max_steps
    /\ requests' = [requests EXCEPT ![r] = @ + 1]
    /\ offered' = [offered EXCEPT ![r] = list_specs(registry, auth[r])]
    /\ pc' = [pc EXCEPT ![r] = "AwaitModel"]
    /\ UNCHANGED <<shared, auth, messages, call_count, step, response, result, issued,
                   executor, evals, apart>>

\* The loop has a next step: client.complete is called with the conversation
\* and registry.list_specs(auth), and awaited (runner.py:313-314).
RequestModel(r) ==
    /\ pc[r] = "Requesting"
    /\ step[r] < max_steps
    /\ requests' = [requests EXCEPT ![r] = @ + 1]
    /\ offered' = [offered EXCEPT ![r] = list_specs(registry, auth[r])]
    /\ pc' = [pc EXCEPT ![r] = "AwaitModel"]
    /\ UNCHANGED <<shared, auth, messages, call_count, step, response, result, issued,
                   executor, evals, apart>>

\* Exhausted with the loop used up and nothing returned: run stays where it is.
Exhausted_NeverReturns(r) ==
    /\ pc[r] = "Requesting"
    /\ step[r] >= max_steps
    /\ UNCHANGED vars

\* range(max_steps) is used up: the exhaustion result (runner.py:347).
Exhausted(r) ==
    /\ pc[r] = "Requesting"
    /\ step[r] >= max_steps
    /\ result' = [result EXCEPT ![r] = AgentResult(<<>>, max_steps, call_count[r])]
    /\ pc' = [pc EXCEPT ![r] = "Done"]
    /\ UNCHANGED <<shared, auth, offered, messages, call_count, step, response, requests, issued,
                   executor, evals, apart>>

\* ModelFinal reporting the loop variable itself (0-based) as steps.
ModelFinal_ZeroBasedStep(r) ==
    /\ pc[r] = "AwaitModel"
    /\ \E text \in Texts :
         /\ response' = [response EXCEPT ![r] = ModelResponse(text, <<>>)]
         /\ result' = [result EXCEPT ![r] =
                AgentResult(strip(text), step[r], call_count[r])]
    /\ pc' = [pc EXCEPT ![r] = "Done"]
    /\ UNCHANGED <<shared, auth, offered, messages, call_count, step, requests, issued,
                   executor, evals, apart>>

\* run is handed a response without tool calls and returns (runner.py:341-345).
Answer(r, text) ==
    /\ response' = [response EXCEPT ![r] = ModelResponse(text, <<>>)]
    /\ result' = [result EXCEPT ![r] =
            AgentResult(strip(text), step[r] + 1, call_count[r])]
    /\ pc' = [pc EXCEPT ![r] = "Done"]
    /\ UNCHANGED <<shared, auth, offered, messages, call_count, step, requests, issued,
                   executor, evals>>

\* complete returns a response without tool calls (runner.py:314-315, 341-345).
ModelFinal(r) ==
    /\ pc[r] = "AwaitModel"
    /\ \E text \in Texts : Answer(r, text)
    /\ UNCHANGED apart

\* ModelToolCalls entering execute without the run's call_count (its default, 0).
ModelToolCalls_CountNotThreaded(r) ==
    /\ pc[r] = "AwaitModel"
    /\ issued[r] < MaxIssued
    /\ \E text \in Texts, calls \in Batches(MaxIssued - issued[r]) :
         LET assistant_text == strip(text) IN
         /\ response' = [response EXCEPT ![r] = ModelResponse(text, calls)]
         /\ messages' = [messages EXCEPT ![r] = Append(@,
                ChatMessage("assistant",
                            IF assistant_text # <<>> THEN assistant_text ELSE None,
                            NoneId, NoneId, calls))]
         /\ issued' = [issued EXCEPT ![r] = @ + Len(calls)]
    /\ ex_idx' = [ex_idx EXCEPT ![r] = 1]
    /\ ex_results' = [ex_results EXCEPT ![r] = <<>>]
    /\ ex_count' = [ex_count EXCEPT ![r] = 0]
    /\ pc' = [pc EXCEPT ![r] = "Executing"]
    /\ UNCHANGED <<shared, auth, offered, call_count, step, result, requests, invocations, evals, apart>>

\* StartBatch recording the trimmed text as it is, empty or not.
StartBatch_TextAsIs(r, text, calls) ==
    /\ response' = [response EXCEPT ![r] = ModelResponse(text, calls)]
    /\ messages' = [messages EXCEPT ![r] = Append(@,
            ChatMessage("assistant", strip(text), NoneId, NoneId, calls))]
    /\ issued' = [issued EXCEPT ![r] = @ + Len(calls)]
    /\ ex_idx' = [ex_idx EXCEPT ![r] = 1]
    /\ ex_results' = [ex_results EXCEPT ![r] = <<>>]
    /\ ex_count' = [ex_count EXCEPT ![r] = call_count[r]]
    /\ pc' = [pc EXCEPT ![r] = "Executing"]
    /\ UNCHANGED <<shared, auth, offered, call_count, step, result, requests, invocations, evals>>

\* StartBatch with the count kept on the runner, one for all its runs.
StartBatch_CountOnRunner(r, text, calls) ==
    LET assistant_text == strip(text) IN
    /\ response' = [response EXCEPT ![r] = ModelResponse(text, calls)]
    /\ messages' = [messages EXCEPT ![r] = Append(@,
            ChatMessage("assistant",
                        IF assistant_text # <<>> THEN assistant_text ELSE None,
                        NoneId, NoneId, calls))]
    /\ issued' = [issued EXCEPT ![r] = @ + Len(calls)]
    /\ ex_idx' = [ex_idx EXCEPT ![r] = 1]
    /\ ex_results' = [ex_results EXCEPT ![r] = <<>>]
    /\ ex_count' = [ex_count EXCEPT ![r] = call_count["r1"] + call_count["r2"]]
    /\ pc' = [pc EXCEPT ![r] = "Executing"]
    /\ UNCHANGED <<shared, auth, offered, call_count, step, result, requests, invocations, evals>>

\* run is handed a response with tool calls: the assistant message is appended
\* and execute is entered with the run's call_count (runner.py:315-328,
\* executor.py:39).
StartBatch(r, text, calls) ==
    LET assistant_text == strip(text) IN
    /\ response' = [response EXCEPT ![r] = ModelResponse(text, calls)]
    /\ messages' = [messages EXCEPT ![r] = Append(@,
            ChatMessage("assistant",
                        IF assistant_text # <<>> THEN assistant_text ELSE None,
                        NoneId, NoneId, calls))]
    /\ issued' = [issued EXCEPT ![r] = @ + Len(calls)]
    /\ ex_idx' = [ex_idx EXCEPT ![r] = 1]
    /\ ex_results' = [ex_results EXCEPT ![r] = <<>>]
    /\ ex_count' = [ex_count EXCEPT ![r] = call_count[r]]
    /\ pc' = [pc EXCEPT ![r] = "Executing"]
    /\ UNCHANGED <<shared, auth, offered, call_count, step, result, requests, invocations, evals>>

\* complete returns a response with tool calls (runner.py:314-328).
ModelToolCalls(r) ==
    /\ pc[r] = "AwaitModel"
    /\ issued[r] < MaxIssued
    /\ \E text \in Texts, calls \in Batches(MaxIssued - issued[r]) :
         StartBatch(r, text, calls)
    /\ UNCHANGED apart

\* complete raises (a transport fault): run does not catch it (runner.py:314).
ModelFault(r) ==
    /\ pc[r] = "AwaitModel"
    /\ pc' = [pc EXCEPT ![r] = "Faulted"]
    /\ UNCHANGED <<shared, auth, offered, messages, call_count, step, response, result, requests,
                   issued, executor, evals, apart>>

\* ------------------------------------------------------------------ ToolExecutor.execute

\* The call execute's loop stands at.
CurrentCall(r) == response[r].tool_calls[ex_idx[r]]

InLoop(r) ==
    /\ pc[r] = "Executing"
    /\ ex_idx[r] <= Len(response[r].tool_calls)

\* CallNotFound with the call limit looked at before the registry.
CallNotFound_LimitFirst(r) ==
    /\ InLoop(r)
    /\ LET call == CurrentCall(r) IN
         /\ get(registry, call.name) = NoTool
         /\ ex_results' = [ex_results EXCEPT ![r] =
                Append(@, failure(call.name,
                    IF ex_count[r] >= policy.max_calls
                    THEN "tool_call_limit_reached" ELSE "tool_not_found"))]
    /\ ex_count' = [ex_count EXCEPT ![r] = @ + 1]
    /\ ex_idx' = [ex_idx EXCEPT ![r] = @ + 1]
    /\ UNCHANGED <<shared, runner, invocations, evals, apart>>

\* CallNotFound skipping the call without recording a result for it.
CallNotFound_NoResult(r) ==
    /\ InLoop(r)
    /\ get(registry, CurrentCall(r).name) = NoTool
    /\ ex_count' = [ex_count EXCEPT ![r] = @ + 1]
    /\ ex_idx' = [ex_idx EXCEPT ![r] = @ + 1]
    /\ UNCHANGED <<shared, runner, ex_results, invocations, evals, apart>>

\* CallNotFound recording the failure without counting the call.
CallNotFound_NotCounted(r) ==
    /\ InLoop(r)
    /\ LET call == CurrentCall(r) IN
         /\ get(registry, call.name) = NoTool
         /\ ex_results' = [ex_results EXCEPT ![r] =
                Append(@, failure(call.name, "tool_not_found"))]
    /\ ex_idx' = [ex_idx EXCEPT ![r] = @ + 1]
    /\ UNCHANGED <<shared, runner, ex_count, invocations, evals, apart>>

\* The name is not registered (executor.py:41-45).
CallNotFound(r) ==
    /\ InLoop(r)
    /\ LET call == CurrentCall(r) IN
         /\ get(registry, call.name) = NoTool
         /\ ex_results' = [ex_results EXCEPT ![r] =
                Append(@, failure(call.name, "tool_not_found"))]
    /\ ex_count' = [ex_count EXCEPT ![r] = @ + 1]
    /\ ex_idx' = [ex_idx EXCEPT ![r] = @ + 1]
    /\ UNCHANGED <<shared, runner, invocations, evals, apart>>

\* CallDenied recording the failure without counting the call.
CallDenied_NotCounted(r) ==
    /\ InLoop(r)
    /\ LET call == CurrentCall(r)
           tool == get(registry, call.name)
           decision == evaluate(policy, tool, auth[r], ex_count[r])
       IN
         /\ tool # NoTool
         /\ ~decision.allow
         /\ ex_results' = [ex_results EXCEPT ![r] =
                Append(@, failure(call.name,
                    IF decision.reason # NoneId /\ decision.reason # ""
                    THEN decision.reason ELSE "tool_not_allowed"))]
    /\ ex_idx' = [ex_idx EXCEPT ![r] = @ + 1]
    /\ UNCHANGED <<shared, runner, ex_count, invocations, evals, apart>>

\* CallDenied reporting every denial as tool_not_allowed.
CallDenied_GenericReason(r) ==
    /\ InLoop(r)
    /\ LET call == CurrentCall(r)
           tool == get(registry, call.name)
           decision == evaluate(policy, tool, auth[r], ex_count[r])
       IN
         /\ tool # NoTool
         /\ ~decision.allow
         /\ ex_results' = [ex_results EXCEPT ![r] =
                Append(@, failure(call.name, "tool_not_allowed"))]
    /\ ex_count' = [ex_count EXCEPT ![r] = @ + 1]
    /\ ex_idx' = [ex_idx EXCEPT ![r] = @ + 1]
    /\ UNCHANGED <<shared, runner, invocations, evals, apart>>

\* The tool is registered and the policy denies the call (executor.py:47-51).
CallDenied(r) ==
    /\ InLoop(r)
    /\ LET call == CurrentCall(r)
           tool == get(registry, call.name)
           decision == evaluate(policy, tool, auth[r], ex_count[r])
       IN
         /\ tool # NoTool
         /\ ~decision.allow
         /\ ex_results' = [ex_results EXCEPT ![r] =
                Append(@, failure(call.name,
                    IF decision.reason # NoneId /\ decision.reason # ""
                    THEN decision.reason ELSE "tool_not_allowed"))]
    /\ ex_count' = [ex_count EXCEPT ![r] = @ + 1]
    /\ ex_idx' = [ex_idx EXCEPT ![r] = @ + 1]
    /\ UNCHANGED <<shared, runner, invocations, evals, apart>>

\* CallInvoke running the tool whatever the policy decided.
CallInvoke_Ungated(r) ==
    /\ InLoop(r)
    /\ LET call == CurrentCall(r)
           tool == get(registry, call.name)
       IN
         /\ tool # NoTool
         /\ invocations' = [invocations EXCEPT ![r] = Append(@,
                [step |-> step[r], idx |-> ex_idx[r], id |-> call.id,
                 name |-> call.name, tool |-> tool.name,
                 call_count |-> ex_count[r], outcome |-> "pending"])]
    /\ ex_count' = [ex_count EXCEPT ![r] = @ + 1]
    /\ pc' = [pc EXCEPT ![r] = "AwaitTool"]
    /\ UNCHANGED <<shared, auth, offered, messages, call_count, step, response, result, requests,
                   issued, ex_idx, ex_results, evals, apart>>

\* CallInvoke starting tool.run without awaiting it: execute goes on to the
\* next call while the tool runs.
CallInvoke_NotAwaited(r) ==
    /\ InLoop(r)
    /\ LET call == CurrentCall(r)
           tool == get(registry, call.name)
           decision == evaluate(policy, tool, auth[r], ex_count[r])
       IN
         /\ tool # NoTool
         /\ decision.allow
         /\ invocations' = [invocations EXCEPT ![r] = Append(@,
                [step |-> step[r], idx |-> ex_idx[r], id |-> call.id,
                 name |-> call.name, tool |-> tool.name,
                 call_count |-> ex_count[r], outcome |-> "pending"])]
         /\ ex_results' = [ex_results EXCEPT ![r] =
                Append(@, from_data(tool.name, <<"ok">>, None))]
    /\ ex_count' = [ex_count EXCEPT ![r] = @ + 1]
    /\ ex_idx' = [ex_idx EXCEPT ![r] = @ + 1]
    /\ UNCHANGED <<shared, runner, evals, apart>>

\* The tool is registered and the policy allows the call: the call is counted and
\* tool.run is called and awaited (executor.py:47-48, 53-63).
CallInvoke(r) ==
    /\ InLoop(r)
    /\ LET call == CurrentCall(r)
           tool == get(registry, call.name)
           decision == evaluate(policy, tool, auth[r], ex_count[r])
       IN
         /\ tool # NoTool
         /\ decision.allow
         /\ invocations' = [invocations EXCEPT ![r] = Append(@,
                [step |-> step[r], idx |-> ex_idx[r], id |-> call.id,
                 name |-> call.name, tool |-> tool.name,
                 call_count |-> ex_count[r], outcome |-> "pending"])]
    /\ ex_count' = [ex_count EXCEPT ![r] = @ + 1]
    /\ pc' = [pc EXCEPT ![r] = "AwaitTool"]
    /\ UNCHANGED <<shared, auth, offered, messages, call_count, step, response, result, requests,
                   issued, ex_idx, ex_results, evals, apart>>

\* The invocations with the outcome of the latest one set: how the awaited
\* tool.run ended.
Ended(invs, outcome) == [invs EXCEPT ![Len(invs)].outcome = outcome]

\* tool.run returns its result (executor.py:63-69, 73).
ToolReturn(r) ==
    /\ pc[r] = "AwaitTool"
    /\ \E res \in ToolReturns(get(registry, CurrentCall(r).name).name) :
         ex_results' = [ex_results EXCEPT ![r] = Append(@, res)]
    /\ invocations' = [invocations EXCEPT ![r] = Ended(@, "returned")]
    /\ ex_idx' = [ex_idx EXCEPT ![r] = @ + 1]
    /\ pc' = [pc EXCEPT ![r] = "Executing"]
    /\ UNCHANGED <<shared, auth, offered, messages, call_count, step, response, result, requests,
                   issued, ex_count, evals, apart>>

\* ToolRaise letting the exception out of execute and of run.
ToolRaise_Propagates(r) ==
    /\ pc[r] = "AwaitTool"
    /\ invocations' = [invocations EXCEPT ![r] = Ended(@, "raised")]
    /\ pc' = [pc EXCEPT ![r] = "Faulted"]
    /\ UNCHANGED <<shared, auth, offered, messages, call_count, step, response, result, requests,
                   issued, ex_idx, ex_results, ex_count, evals, apart>>

\* tool.run raises an Exception: it is logged and the call's result is the
\* failure tool_execution_failed (executor.py:70-73).
ToolRaise(r) ==
    /\ pc[r] = "AwaitTool"
    /\ ex_results' = [ex_results EXCEPT ![r] =
            Append(@, failure(CurrentCall(r).name, "tool_execution_failed"))]
    /\ invocations' = [invocations EXCEPT ![r] = Ended(@, "raised")]
    /\ ex_idx' = [ex_idx EXCEPT ![r] = @ + 1]
    /\ pc' = [pc EXCEPT ![r] = "Executing"]
    /\ UNCHANGED <<shared, auth, offered, messages, call_count, step, response, result, requests,
                   issued, ex_count, evals, apart>>

\* tool_messages reporting only the calls that succeeded.
RECURSIVE tool_messages_OnlySuccesses(_, _)
tool_messages_OnlySuccesses(calls, results) ==
    IF calls = <<>> \/ results = <<>>
    THEN <<>>
    ELSE (IF Head(results).ok
          THEN <<ChatMessage("tool", Head(results).content, Head(calls).name,
                             Head(calls).id, <<>>)>>
          ELSE <<>>)
         \o tool_messages_OnlySuccesses(Tail(calls), Tail(results))

\* zip(response.tool_calls, summary.results, strict=False) as tool messages
\* (runner.py:330-338).
RECURSIVE tool_messages(_, _)
tool_messages(calls, results) ==
    IF calls = <<>> \/ results = <<>>
    THEN <<>>
    ELSE <<ChatMessage("tool", Head(results).content, Head(calls).name,
                       Head(calls).id, <<>>)>>
         \o tool_messages(Tail(calls), Tail(results))

\* FinishBatch without call_count = summary.call_count.
FinishBatch_CountNotTaken(r) ==
    /\ pc[r] = "Executing"
    /\ ex_idx[r] > Len(response[r].tool_calls)
    /\ messages' = [messages EXCEPT ![r] =
            @ \o tool_messages(response[r].tool_calls, ex_results[r])]
    /\ step' = [step EXCEPT ![r] = @ + 1]
    /\ pc' = [pc EXCEPT ![r] = "Requesting"]
    /\ UNCHANGED <<shared, auth, offered, call_count, response, result, requests, issued,
                   executor, evals, apart>>

\* execute's loop is over: it returns its summary, run takes the count, appends
\* the tool messages and goes to the next step (executor.py:75, runner.py:329-339).
FinishBatch(r) ==
    /\ pc[r] = "Executing"
    /\ ex_idx[r] > Len(response[r].tool_calls)
    /\ call_count' = [call_count EXCEPT ![r] = ex_count[r]]
    /\ messages' = [messages EXCEPT ![r] =
            @ \o tool_messages(response[r].tool_calls, ex_results[r])]
    /\ step' = [step EXCEPT ![r] = @ + 1]
    /\ pc' = [pc EXCEPT ![r] = "Requesting"]
    /\ UNCHANGED <<shared, auth, offered, response, result, requests, issued, executor, evals, apart>>

\* ------------------------------------------------------------------ LiteLLMChatClient.complete

\* What the transports may return.  A response of the responses convention
\* with a padded text; one with a function call; a chat completion with the
\* text "hi"; a chat completion with two tool calls, the second without an id
\* and of an unregistered name; a payload of no recognizable shape; one whose
\* only text is blank; one whose output is a number.
TextPayload ==
    PyObj("output" :> PyList(<<
        PyObj("type" :> PyStr(<<"message">>)
              @@ "content" :> PyList(<<
                    PyObj("type" :> PyStr(<<"output_text">>)
                          @@ "text" :> PyStr(<<" ", "d", "\n">>))>>))>>))
CallPayload ==
    PyDict("output" :> PyList(<<
        PyDict("type" :> PyStr(<<"function_call">>)
               @@ "call_id" :> PyStr(<<"c1">>)
               @@ "name" :> PyStr(<<"retrieve">>)
               @@ "arguments" :> PyStr(<<"{", "\"query\"", ":", "\"hello\"", "}">>))>>))
ChatPayload ==
    PyDict("choices" :> PyList(<<
        PyDict("message" :> PyDict("content" :> PyStr(<<"hi">>)))>>))
ChatCallsPayload ==
    PyDict("choices" :> PyList(<<
        PyDict("message" :> PyDict(
            "content" :> PyNone
            @@ "tool_calls" :> PyList(<<
                  PyDict("id" :> PyStr(<<"x">>)
                         @@ "function" :> PyDict("name" :> PyStr(<<"admin">>)
                                                 @@ "arguments" :> PyStr(<<"{", "}">>))),
                  PyDict("function" :> PyDict("name" :> PyStr(<<"ghost">>)
                                              @@ "arguments" :> PyStr(<<>>)))>>)))>>))
ShapelessPayload == PyDict("status" :> PyStr(<<"ok">>))
BlankPayload == PyDict("output_text" :> PyStr(<<" ">>))
BrokenPayload == PyDict("output" :> PyInt(5))
\* Two standalone tool-call items, neither with an identifier of the backend.
BareCallsPayload ==
    PyDict("output" :> PyList(<<
        PyDict("type" :> PyStr(<<"tool_call">>) @@ "name" :> PyStr(<<"retrieve">>)),
        PyDict("type" :> PyStr(<<"tool_call">>) @@ "name" :> PyStr(<<"ghost">>))>>))

TransportPayloads ==
    {TextPayload, CallPayload, ChatPayload, ChatCallsPayload,
     ShapelessPayload, BlankPayload, BrokenPayload, BareCallsPayload}

\* A transport call of complete: which transport, how it ended, the payload
\* it returned and what the normalizer made of it.
Pending(transport) ==
    [transport |-> transport, outcome |-> "pending", payload |-> PyNone,
     normalized |-> Extracted(<<>>, <<>>)]
Returned(transport, p, n) ==
    [transport |-> transport, outcome |-> "returned", payload |-> p, normalized |-> n]
Failed(transport) ==
    [transport |-> transport, outcome |-> "raised", payload |-> PyNone,
     normalized |-> Extracted(<<>>, <<>>)]

\* not text and not tool_calls
is_empty(n) == n.text = <<>> /\ n.tool_calls = <<>>

\* complete is entered: it builds the request and awaits aresponses
\* (runner.py:218-228).
CallPrimary(r) ==
    /\ pc[r] = "AwaitModel"
    /\ cl_pc = "Idle"
    /\ cl_log' = <<Pending("aresponses")>>
    /\ cl_response' = NoClientResponse
    /\ cl_pc' = "AwaitPrimary"
    /\ UNCHANGED <<shared, runner, executor, evals, normalizer, registrar, tooling>>

\* primary_done going to acompletion whenever the text is empty, tool calls
\* or not.
primary_done_TextOnly(p, n) ==
    IF n.raised
    THEN /\ cl_log' = <<Returned("aresponses", p, n)>>
         /\ cl_pc' = "Raised"
         /\ UNCHANGED cl_response
    ELSE IF n.text = <<>>
    THEN /\ cl_log' = <<Returned("aresponses", p, n), Pending("acompletion")>>
         /\ cl_pc' = "AwaitSecondary"
         /\ UNCHANGED cl_response
    ELSE /\ cl_log' = <<Returned("aresponses", p, n)>>
         /\ cl_pc' = "Returned"
         /\ cl_response' = ClientResponse(n.text, n.tool_calls, p)

\* What complete does with payload p of aresponses, normalized to n: it lets
\* the normalizer's exception out, goes to acompletion when n is empty, and
\* returns n otherwise (runner.py:229-246, 255).
primary_done(p, n) ==
    IF n.raised
    THEN /\ cl_log' = <<Returned("aresponses", p, n)>>
         /\ cl_pc' = "Raised"
         /\ UNCHANGED cl_response
    ELSE IF is_empty(n)
    THEN /\ cl_log' = <<Returned("aresponses", p, n), Pending("acompletion")>>
         /\ cl_pc' = "AwaitSecondary"
         /\ UNCHANGED cl_response
    ELSE /\ cl_log' = <<Returned("aresponses", p, n)>>
         /\ cl_pc' = "Returned"
         /\ cl_response' = ClientResponse(n.text, n.tool_calls, p)

\* aresponses returns (runner.py:228-246, 255).
PrimaryReturns(r) ==
    /\ pc[r] = "AwaitModel"
    /\ cl_pc = "AwaitPrimary"
    /\ \E p \in TransportPayloads : primary_done(p, _extract_response_payload(p))
    /\ UNCHANGED <<shared, runner, executor, evals, normalizer, registrar, tooling>>

\* PrimaryFault swallowing the fault and trying acompletion.
PrimaryFault_TriesSecondary(r) ==
    /\ pc[r] = "AwaitModel"
    /\ cl_pc = "AwaitPrimary"
    /\ cl_log' = <<Failed("aresponses"), Pending("acompletion")>>
    /\ cl_pc' = "AwaitSecondary"
    /\ UNCHANGED <<shared, runner, executor, evals, normalizer, registrar, tooling, cl_response>>

\* aresponses raises: complete has no handler (runner.py:228).
PrimaryFault(r) ==
    /\ pc[r] = "AwaitModel"
    /\ cl_pc = "AwaitPrimary"
    /\ cl_log' = <<Failed("aresponses")>>
    /\ cl_pc' = "Raised"
    /\ UNCHANGED <<shared, runner, executor, evals, normalizer, registrar, tooling, cl_response>>

\* secondary_done returning the first transport's payload as raw.
secondary_done_PrimaryRaw(p, n) ==
    /\ cl_log' = <<cl_log[1], Returned("acompletion", p, n)>>
    /\ IF n.raised
       THEN cl_pc' = "Raised" /\ UNCHANGED cl_response
       ELSE /\ cl_pc' = "Returned"
            /\ cl_response' = ClientResponse(n.text, n.tool_calls, cl_log[1].payload)

\* What complete does with payload p of acompletion, normalized to n: it
\* returns n, empty or not (runner.py:247-255).
secondary_done(p, n) ==
    /\ cl_log' = <<cl_log[1], Returned("acompletion", p, n)>>
    /\ IF n.raised
       THEN cl_pc' = "Raised" /\ UNCHANGED cl_response
       ELSE /\ cl_pc' = "Returned"
            /\ cl_response' = ClientResponse(n.text, n.tool_calls, p)

\* acompletion returns (runner.py:246-255).
SecondaryReturns(r) ==
    /\ pc[r] = "AwaitModel"
    /\ cl_pc = "AwaitSecondary"
    /\ \E p \in TransportPayloads : secondary_done(p, _extract_response_payload(p))
    /\ UNCHANGED <<shared, runner, executor, evals, normalizer, registrar, tooling>>

\* acompletion raises: complete has no handler (runner.py:246).
SecondaryFault(r) ==
    /\ pc[r] = "AwaitModel"
    /\ cl_pc = "AwaitSecondary"
    /\ cl_log' = <<cl_log[1], Failed("acompletion")>>
    /\ cl_pc' = "Raised"
    /\ UNCHANGED <<shared, runner, executor, evals, normalizer, registrar, tooling, cl_response>>

\* run takes the ModelResponse complete returned (runner.py:314-315).
CompleteReturns(r) ==
    /\ pc[r] = "AwaitModel"
    /\ cl_pc = "Returned"
    /\ IF cl_response.tool_calls # <<>>
       THEN StartBatch(r, cl_response.text, cl_response.tool_calls)
       ELSE Answer(r, cl_response.text)
    /\ cl_pc' = "Idle"
    /\ UNCHANGED <<cl_log, cl_response, normalizer, registrar, tooling>>

\* What complete raised leaves run, which has no handler (runner.py:314).
CompleteRaises(r) ==
    /\ pc[r] = "AwaitModel"
    /\ cl_pc = "Raised"
    /\ pc' = [pc EXCEPT ![r] = "Faulted"]
    /\ UNCHANGED <<shared, auth, offered, messages, call_count, step, response, result, requests,
                   issued, executor, evals, apart>>

\* ------------------------------------------------------------------ specification

Policies ==
    [allowed_tools : {NoAllowList, AllowList({"admin"})},
     denied_tools : {{}},
     max_calls : 0..MaxCallsLimit]

RunAuths == {NoAuth, AuthContext({"s1"})}

EvalIdle ==
    /\ ev_in = [spec |-> NoTool, auth |-> NoAuth, call_count |-> 0]
    /\ ev_first = Decision(FALSE, NoneId)
    /\ ev_last = Decision(FALSE, NoneId)
    /\ ev_n = 0

\* No call on the registry yet.
NoRegistryCall ==
    [op |-> "none", raised |-> FALSE, tools |-> <<>>, auth |-> NoAuth,
     before |-> <<>>, specs |-> <<>>]

\* No ToolResult built.
NoToolResult == [name |-> NoneId, ok |-> FALSE, content |-> None, data |-> None, error |-> NoneId]

\* No call of from_data or failure.
NoBuild == [op |-> "none", name |-> NoneId, data |-> None, content |-> None, error |-> NoneId]

\* RetrieveTool.run not called, or not over.
NoOutcome == [raised |-> FALSE, result |-> NoToolResult]

\* ToolResult's constructors and RetrieveTool at rest.
ToolingIdle ==
    /\ built_in = NoBuild
    /\ built = NoToolResult
    /\ rt_args = PyNone
    /\ rt_out = NoOutcome

\* The normalizer, the chat client and the registry's callers at rest.
ApartIdle ==
    /\ ToolingIdle
    /\ payload = PyNone
    /\ extracted = Extracted(<<>>, <<>>)
    /\ norm_done = FALSE
    /\ cl_pc = "Idle"
    /\ cl_log = <<>>
    /\ cl_response = NoClientResponse
    /\ reg_log = <<>>
    /\ reg_last = NoRegistryCall

RunnerIdle(started) ==
    /\ pc = [r \in Runs |-> IF r \in started THEN "Idle" ELSE "Off"]
    /\ messages = [r \in Runs |-> <<>>]
    /\ call_count = [r \in Runs |-> 0]
    /\ step = [r \in Runs |-> 0]
    /\ response = [r \in Runs |-> NoResponse]
    /\ result = [r \in Runs |-> NoResult]
    /\ requests = [r \in Runs |-> 0]
    /\ offered = [r \in Runs |-> <<>>]
    /\ issued = [r \in Runs |-> 0]
    /\ ex_idx = [r \in Runs |-> 1]
    /\ ex_results = [r \in Runs |-> <<>>]
    /\ ex_count = [r \in Runs |-> 0]
    /\ invocations = [r \in Runs |-> <<>>]

\* One run on a runner built with some policy and some max_steps.
Init ==
    /\ registry = Tools
    /\ policy \in Policies
    /\ max_steps \in 0..MaxSteps
    /\ auth \in [Runs -> RunAuths]
    /\ \A r \in Runs : r # "r1" => auth[r] = NoAuth
    /\ RunnerIdle({"r1"})
    /\ EvalIdle
    /\ ApartIdle

Next ==
    \E r \in Runs :
        \/ Begin(r)
        \/ RequestModel(r)
        \/ Exhausted(r)
        \/ ModelFinal(r)
        \/ ModelToolCalls(r)
        \/ ModelFault(r)
        \/ CallNotFound(r)
        \/ CallDenied(r)
        \/ CallInvoke(r)
        \/ ToolReturn(r)
        \/ ToolRaise(r)
        \/ FinishBatch(r)

Spec == Init /\ [][Next]_vars

\* ------------------------------------------------------------------ evaluate alone

\* Every policy over the registered names, every spec, every auth context.
AllPolicies ==
    [allowed_tools : {NoAllowList} \cup {AllowList(S) : S \in SUBSET {"retrieve", "admin"}},
     denied_tools : SUBSET {"retrieve", "admin"},
     max_calls : 0..MaxCallsLimit]

AllSpecs == {ToolSpec(n, sc) : n \in {"retrieve", "admin"}, sc \in SUBSET Scopes}

EvalInputs == [spec : AllSpecs, auth : Auths, call_count : 0..MaxCount]

\* policy.evaluate is called on the followed (spec, auth, call_count).
EvaluateFollowed ==
    /\ ev_n < MaxEvals
    /\ LET decision == evaluate(policy, ev_in.spec, ev_in.auth, ev_in.call_count)
           after == evaluate_effect(policy, ev_in.spec, ev_in.auth, ev_in.call_count)
       IN
         /\ ev_first' = IF ev_n = 0 THEN decision ELSE ev_first
         /\ ev_last' = decision
         /\ policy' = after.policy
         /\ ev_in' = [spec |-> after.spec, auth |-> after.auth,
                      call_count |-> ev_in.call_count]
    /\ ev_n' = ev_n + 1
    /\ UNCHANGED <<registry, max_steps, runner, executor, apart>>

\* policy.evaluate is called on some other (spec, auth, call_count).
EvaluateOther ==
    /\ ev_n < MaxEvals
    /\ \E in \in EvalInputs :
         policy' = evaluate_effect(policy, in.spec, in.auth, in.call_count).policy
    /\ UNCHANGED <<registry, max_steps, runner, executor, evals, apart>>

PolicyInit ==
    /\ registry = Tools
    /\ policy \in AllPolicies
    /\ max_steps = 0
    /\ auth = [r \in Runs |-> NoAuth]
    /\ RunnerIdle({})
    /\ ev_in \in EvalInputs
    /\ ev_first = Decision(FALSE, NoneId)
    /\ ev_last = Decision(FALSE, NoneId)
    /\ ev_n = 0
    /\ ApartIdle

PolicyNext == EvaluateFollowed \/ EvaluateOther

PolicySpec == PolicyInit /\ [][PolicyNext]_vars

\* ------------------------------------------------------------------ two runs on one runner

\* The tool calls the models of the two runs ask for: a registered name and
\* an unregistered one.
PairCalls == {c \in ToolCalls : c.id = "call_0" /\ c.name \in {"retrieve", "ghost"}}

\* The model's and the tools' answers are those of the pair: the text is
\* empty, the calls are PairCalls, a tool that returns succeeds.
PairInputs ==
    \A r \in Runs :
        /\ response'[r].text \in {None, <<>>}
        /\ \A i \in DOMAIN response'[r].tool_calls : response'[r].tool_calls[i] \in PairCalls
        /\ \A i \in DOMAIN ex_results'[r] :
             ex_results'[r][i].ok \/ ex_results'[r][i].error # "missing_query"

\* Two calls of run on one AgentRunner, the first with scope s1, the second
\* without an auth context.
PairInit ==
    /\ registry = Tools
    /\ policy \in [allowed_tools : {NoAllowList}, denied_tools : {{}},
                   max_calls : 0..MaxCallsLimit]
    /\ max_steps = MaxSteps
    /\ auth = [r \in Runs |-> IF r = "r1" THEN AuthContext({"s1"}) ELSE NoAuth]
    /\ RunnerIdle(Runs)
    /\ EvalIdle
    /\ ApartIdle

\* The steps of the two runs interleave at their awaits.
PairNext ==
    \E r \in Runs :
        \/ Begin(r) /\ PairInputs
        \/ RequestModel(r) /\ PairInputs
        \/ Exhausted(r) /\ PairInputs
        \/ ModelFinal(r) /\ PairInputs
        \/ ModelToolCalls(r) /\ PairInputs
        \/ ModelFault(r) /\ PairInputs
        \/ CallNotFound(r) /\ PairInputs
        \/ CallDenied(r) /\ PairInputs
        \/ CallInvoke(r) /\ PairInputs
        \/ ToolReturn(r) /\ PairInputs
        \/ ToolRaise(r) /\ PairInputs
        \/ FinishBatch(r) /\ PairInputs

PairSpec == PairInit /\ [][PairNext]_vars

\* ------------------------------------------------------------------ a run that is let run

\* The batches a model that never tires of asking may ask for, round after
\* round: a public tool, an unknown name, a scoped tool followed by a
\* public one.
LiveBatches ==
    {<<[id |-> "call_0", name |-> "retrieve"]>>,
     <<[id |-> "call_0", name |-> "ghost"]>>,
     <<[id |-> "call_0", name |-> "admin"], [id |-> "call_1", name |-> "retrieve"]>>}

\* client.complete returns tool calls, whatever the model asked before
\* (runner.py:314-328).
LiveToolCalls(r) ==
    /\ pc[r] = "AwaitModel"
    /\ \E calls \in LiveBatches : StartBatch(r, <<>>, calls)
    /\ UNCHANGED apart

\* The code of run and of execute between two awaits: the event loop runs
\* it as soon as the coroutine is resumed.
RunSteps ==
    \E r \in Runs :
        \/ Begin(r)
        \/ RequestModel(r)
        \/ Exhausted(r)
        \/ CallNotFound(r)
        \/ CallDenied(r)
        \/ CallInvoke(r)
        \/ FinishBatch(r)

\* The awaited client.complete ends: a final text, tool calls or a fault.
ModelAnswers == \E r \in Runs : ModelFinal(r) \/ LiveToolCalls(r) \/ ModelFault(r)

\* The awaited tool.run ends: a result or an Exception.
ToolEnds == \E r \in Runs : ToolReturn(r) \/ ToolRaise(r)

LiveNext ==
    \E r \in Runs :
        \/ Begin(r)
        \/ RequestModel(r)
        \/ Exhausted(r)
        \/ ModelFinal(r)
        \/ LiveToolCalls(r)
        \/ ModelFault(r)
        \/ CallNotFound(r)
        \/ CallDenied(r)
        \/ CallInvoke(r)
        \/ ToolReturn(r)
        \/ ToolRaise(r)
        \/ FinishBatch(r)

\* One run whose model requests and tool invocations all end: the code of the
\* run is resumed when it can be, every client.complete and every tool.run
\* awaited eventually returns or raises.
LiveSpec ==
    /\ Init
    /\ [][LiveNext]_vars
    /\ WF_vars(RunSteps)
    /\ WF_vars(ModelAnswers)
    /\ WF_vars(ToolEnds)

\* ------------------------------------------------------------------ execute alone

\* The tool calls execute is handed: a public tool, a scoped one and a name
\* that is not registered.
ExecCalls == {c \in ToolCalls : c.id = "call_0"}

ExecBatches == UNION {[1..k -> ExecCalls] : k \in 1..MaxIssued}

\* ToolExecutor.execute(calls, auth=auth, call_count=n) is called on an
\* executor built with any policy: results is empty and the loop is at the
\* first call (executor.py:32-40).
ExecInit ==
    /\ registry = Tools
    /\ policy \in AllPolicies
    /\ max_steps = 0
    /\ auth \in [Runs -> Auths]
    /\ \A r \in Runs : r # "r1" => auth[r] = NoAuth
    /\ pc = [r \in Runs |-> IF r = "r1" THEN "Executing" ELSE "Off"]
    /\ messages = [r \in Runs |-> <<>>]
    /\ \E n \in 0..MaxCount :
         /\ call_count = [r \in Runs |-> IF r = "r1" THEN n ELSE 0]
         /\ ex_count = call_count
    /\ step = [r \in Runs |-> 0]
    /\ \E calls \in ExecBatches :
         response = [r \in Runs |-> IF r = "r1" THEN ModelResponse(<<>>, calls)
                                    ELSE NoResponse]
    /\ result = [r \in Runs |-> NoResult]
    /\ requests = [r \in Runs |-> 0]
    /\ offered = [r \in Runs |-> <<>>]
    /\ issued = [r \in Runs |-> 0]
    /\ ex_idx = [r \in Runs |-> 1]
    /\ ex_results = [r \in Runs |-> <<>>]
    /\ invocations = [r \in Runs |-> <<>>]
    /\ EvalIdle
    /\ ApartIdle

\* The loop of execute, call by call.
ExecNext ==
    \E r \in Runs :
        \/ CallNotFound(r)
        \/ CallDenied(r)
        \/ CallInvoke(r)
        \/ ToolReturn(r)
        \/ ToolRaise(r)

ExecSpec == ExecInit /\ [][ExecNext]_vars

\* ------------------------------------------------------------------ a run on the chat client

\* One run whose client is a LiteLLMChatClient.
ClientInit ==
    /\ registry = Tools
    /\ policy \in Policies
    /\ max_steps \in 0..MaxSteps
    /\ auth \in [Runs -> Auths]
    /\ \A r \in Runs : r # "r1" => auth[r] = NoAuth
    /\ RunnerIdle({"r1"})
    /\ EvalIdle
    /\ ApartIdle

ClientNext ==
    \E r \in Runs :
        \/ Begin(r)
        \/ RequestModel(r)
        \/ Exhausted(r)
        \/ CallPrimary(r)
        \/ PrimaryReturns(r)
        \/ PrimaryFault(r)
        \/ SecondaryReturns(r)
        \/ SecondaryFault(r)
        \/ CompleteReturns(r)
        \/ CompleteRaises(r)
        \/ CallNotFound(r)
        \/ CallDenied(r)
        \/ CallInvoke(r)
        \/ ToolReturn(r)
        \/ ToolRaise(r)
        \/ FinishBatch(r)

ClientSpec == ClientInit /\ [][ClientNext]_vars

\* ------------------------------------------------------------------ the normalizer alone

\* A field the payload does not have.
Absent == [kind |-> "absent"]

\* The object a payload's fields make: the fields that are there.
Fields(all) == [k \in {k \in DOMAIN all : all[k] # Absent} |-> all[k]]

\* The raw arguments of a tool call: a string that parses to an object, to an
\* array, to null; a string that does not parse; a mapping; a number; none.
ArgumentValues ==
    {PyStr(<<"{", "\"query\"", ":", "\"hello\"", "}">>),
     PyStr(<<"[", "1", "]">>),
     PyStr(<<"null">>),
     PyStr(<<"{", "bad">>),
     PyDict("query" :> PyStr(<<"hello">>)),
     PyInt(7),
     Absent}

\* A standalone tool-call item without a backend identifier.
BareCall(name, arguments) ==
    PyDict(Fields("type" :> PyStr(<<"tool_call">>)
                  @@ "name" :> PyStr(<<name>>)
                  @@ "arguments" :> arguments))

\* A tool-call item with the identifiers a backend may give it.
IdentifiedCall(call_id, id) ==
    PyDict(Fields("type" :> PyStr(<<"tool_call">>)
                  @@ "call_id" :> call_id
                  @@ "id" :> id
                  @@ "name" :> PyStr(<<"admin">>)))

\* The items of an output list: tool calls without and with identifiers, a
\* message with text, a message with two tool calls of its own, a text item,
\* an item whose type is a list, an item without a type that names a tool,
\* and a tool call given as an object.
OutputItems ==
    {BareCall("retrieve", a) : a \in ArgumentValues}
    \cup {IdentifiedCall(PyStr(<<"c1">>), PyStr(<<"x">>)),
          IdentifiedCall(Absent, PyStr(<<"x">>)),
          IdentifiedCall(Absent, PyNone)}
    \cup {PyDict("type" :> PyStr(<<"message">>)
                 @@ "content" :> PyList(<<PyDict("type" :> PyStr(<<"output_text">>)
                                                 @@ "text" :> PyStr(<<"m">>))>>)),
          PyDict("type" :> PyStr(<<"output_message">>)
                 @@ "tool_calls" :> PyList(<<
                        PyDict("function" :> PyDict("name" :> PyStr(<<"retrieve">>)
                                                    @@ "arguments" :> PyStr(<<"1">>))),
                        PyDict("name" :> PyStr(<<"admin">>))>>)),
          PyDict("type" :> PyStr(<<"text">>) @@ "text" :> PyStr(<<"o">>)),
          PyDict("type" :> PyList(<<>>)),
          PyDict("name" :> PyStr(<<"ghost">>)),
          PyObj("type" :> PyStr(<<"tool_call">>) @@ "name" :> PyStr(<<"admin">>))}

\* The sequences of at most n items.
RECURSIVE ItemLists(_)
ItemLists(n) ==
    IF n = 0
    THEN {<<>>}
    ELSE ItemLists(n - 1)
         \cup {Append(items, item) : items \in ItemLists(n - 1), item \in OutputItems}

\* What the output field may hold: nothing, None, a number, a string, a
\* mapping, or a list of items.
OutputValues ==
    {Absent, PyNone, PyInt(5), PyStr(<<"a", "b">>), PyDict("a" :> PyInt(1))}
    \cup {PyList(items) : items \in ItemLists(MaxItems)}

OutputTextValues == {Absent, PyStr(<<"flat">>)}

TextValues == {Absent, PyStr(<<"t">>), PyInt(5)}

\* What the choices field may hold: nothing, a list with a message, a
\* number, a string, a mapping.
ChoicesValues ==
    {Absent,
     PyList(<<PyDict("message" :> PyDict(
                "content" :> PyStr(<<"hi">>)
                @@ "tool_calls" :> PyList(<<PyDict("function" :>
                        PyDict("name" :> PyStr(<<"admin">>)))>>)))>>),
     PyInt(5),
     PyStr(<<"a", "b">>),
     PyDict("a" :> PyInt(1))}

\* The payloads the normalizer is given: None, and every mapping of the
\* fields it looks at.
Payloads ==
    {PyNone}
    \cup {PyDict(Fields("output" :> o @@ "output_text" :> ot @@ "text" :> t
                        @@ "choices" :> c)) :
            o \in OutputValues, ot \in OutputTextValues,
            t \in TextValues, c \in ChoicesValues}

\* _extract_response_payload is called on the payload.
Extract ==
    /\ ~norm_done
    /\ extracted' = _extract_response_payload(payload)
    /\ norm_done' = TRUE
    /\ UNCHANGED <<shared, runner, executor, evals, payload, client, registrar, tooling>>

NormInit ==
    /\ registry = Tools
    /\ policy = [allowed_tools |-> NoAllowList, denied_tools |-> {}, max_calls |-> 0]
    /\ max_steps = 0
    /\ auth = [r \in Runs |-> NoAuth]
    /\ RunnerIdle({})
    /\ EvalIdle
    /\ payload \in Payloads
    /\ extracted = Extracted(<<>>, <<>>)
    /\ norm_done = FALSE
    /\ cl_pc = "Idle"
    /\ cl_log = <<>>
    /\ cl_response = NoClientResponse
    /\ reg_log = <<>>
    /\ reg_last = NoRegistryCall
    /\ ToolingIdle

NormNext == Extract

NormSpec == NormInit /\ [][NormNext]_vars

\* ------------------------------------------------------------------ the registry alone

\* The tools a caller may register: three names, each with any scopes.
RegistryNames == {"retrieve", "admin", "search"}
RegistryTools == {ToolSpec(n, sc) : n \in RegistryNames, sc \in SUBSET Scopes}

\* The lists of one or two tools given to register_all.
ToolLists == UNION {[1..k -> RegistryTools] : k \in 1..2}

\* A call on the registry, as its caller saw it.
RegistryCall(op, raised, tools, au, before, specs) ==
    [op |-> op, raised |-> raised, tools |-> tools, auth |-> au,
     before |-> before, specs |-> specs]

\* registry.register(tool)
Register ==
    /\ Len(reg_log) < MaxRegistered
    /\ \E tool \in RegistryTools :
         /\ registry' = register(registry, tool).tools
         /\ reg_log' = Append(reg_log, tool)
         /\ reg_last' = RegistryCall("register", register(registry, tool).raised,
                                     <<tool>>, NoAuth, registry, <<>>)
    /\ UNCHANGED <<policy, max_steps, runner, executor, evals, normalizer, client, tooling>>

\* registry.register_all(tools)
RegisterAll ==
    /\ \E tools \in ToolLists :
         /\ Len(reg_log) + Len(tools) <= MaxRegistered
         /\ registry' = register_all(registry, tools).tools
         /\ reg_log' = reg_log \o register_all(registry, tools).tried
         /\ reg_last' = RegistryCall("register_all", register_all(registry, tools).raised,
                                     tools, NoAuth, registry, <<>>)
    /\ UNCHANGED <<policy, max_steps, runner, executor, evals, normalizer, client, tooling>>

\* registry.list_specs(auth)
ListSpecs ==
    /\ \E au \in Auths :
         reg_last' = RegistryCall("list_specs", FALSE, <<>>, au, registry,
                                  list_specs(registry, au))
    /\ UNCHANGED <<shared, runner, executor, evals, normalizer, client, tooling, reg_log>>

\* A registry as constructed: no tools.
RegistryInit ==
    /\ registry = <<>>
    /\ policy = [allowed_tools |-> NoAllowList, denied_tools |-> {}, max_calls |-> 0]
    /\ max_steps = 0
    /\ auth = [r \in Runs |-> NoAuth]
    /\ RunnerIdle({})
    /\ EvalIdle
    /\ ApartIdle

RegistryNext == Register \/ RegisterAll \/ ListSpecs

RegistrySpec == RegistryInit /\ [][RegistryNext]_vars

\* ------------------------------------------------------------------ ToolResult alone

ResultNames == {"retrieve", "admin"}

\* The data a tool hands to from_data.
ResultData == {<<>>, <<"ok">>, <<"a", "b">>, <<"1">>}

\* The content argument of from_data: left out, empty, a text of the tool's
\* own, or the JSON of some data.
ResultContents == {None, <<>>, <<"hello">>} \cup {json_dumps(data) : data \in ResultData}

\* The error codes failure is called with (executor.py:43, 49, 72,
\* policies.py:42-52, retrieve.py:38).
ErrorCodes ==
    {"tool_not_found", "tool_not_allowed", "tool_execution_failed",
     "tool_call_limit_reached", "tool_denied", "missing_auth_context",
     "missing_required_scope", "missing_query"}

\* A call of one of ToolResult's constructors.
FromData(name, data, content) ==
    [op |-> "from_data", name |-> name, data |-> data, content |-> content,
     error |-> NoneId]
Failure(name, error) ==
    [op |-> "failure", name |-> name, data |-> None, content |-> None, error |-> error]

\* ToolResult.from_data(name, data, content=content) is called.
BuildFromData ==
    /\ built_in.op = "from_data"
    /\ built = NoToolResult
    /\ built' = from_data(built_in.name, built_in.data, built_in.content)
    /\ UNCHANGED <<shared, runner, executor, evals, normalizer, client, registrar,
                   built_in, rt_args, rt_out>>

\* ToolResult.failure(name, error) is called.
BuildFailure ==
    /\ built_in.op = "failure"
    /\ built = NoToolResult
    /\ built' = failure(built_in.name, built_in.error)
    /\ UNCHANGED <<shared, runner, executor, evals, normalizer, client, registrar,
                   built_in, rt_args, rt_out>>

ResultInit ==
    /\ registry = Tools
    /\ policy = [allowed_tools |-> NoAllowList, denied_tools |-> {}, max_calls |-> 0]
    /\ max_steps = 0
    /\ auth = [r \in Runs |-> NoAuth]
    /\ RunnerIdle({})
    /\ EvalIdle
    /\ payload = PyNone
    /\ extracted = Extracted(<<>>, <<>>)
    /\ norm_done = FALSE
    /\ cl_pc = "Idle"
    /\ cl_log = <<>>
    /\ cl_response = NoClientResponse
    /\ reg_log = <<>>
    /\ reg_last = NoRegistryCall
    /\ built_in \in {FromData(name, data, content) :
                        name \in ResultNames, data \in ResultData, content \in ResultContents}
                    \cup {Failure(name, error) : name \in ResultNames, error \in ErrorCodes}
    /\ built = NoToolResult
    /\ rt_args = PyNone
    /\ rt_out = NoOutcome

ResultNext == BuildFromData \/ BuildFailure

ResultSpec == ResultInit /\ [][ResultNext]_vars

\* ------------------------------------------------------------------ tools/impl/retrieve.py

\* RetrievalSettings.max_results
SettingsMaxResults == 5

\* int(v) of a value that is true: whether it raised (ValueError on a string
\* that is no number, TypeError on a list or a mapping) and the number.
int_of(v) ==
    CASE v.kind = "int" -> [raised |-> FALSE, n |-> v.n]
      [] v.kind = "str" /\ v.s = <<"3">> -> [raised |-> FALSE, n |-> 3]
      [] OTHER -> [raised |-> TRUE, n |-> 0]

Min(a, b) == IF a <= b THEN a ELSE b
Max(a, b) == IF a >= b THEN a ELSE b

\* max(1, min(max_results, self.settings.max_results))
clamp(max_results) == Max(1, Min(max_results, SettingsMaxResults))

\* payload = {"query": query, "matches": matches}, the matches by their number.
retrieve_payload(query, matches) == <<"query:">> \o query \o <<"matches:", ToString(matches)>>

\* The search and the result: the loops stop at max_results matches of the
\* lines the files have for query (retrieve.py:43-60).
retrieve_search(query, max_results, lines) ==
    [raised |-> FALSE,
     result |-> from_data("retrieve",
                          retrieve_payload(query, Min(lines, max_results)),
                          json_dumps(retrieve_payload(query, Min(lines, max_results))))]

\* After the query test: max_results is read, converted and clamped
\* (retrieve.py:40-41).
retrieve_limit(query, max_results, lines) ==
    IF max_results.raised
    THEN [raised |-> TRUE, result |-> NoToolResult]
    ELSE retrieve_search(query, clamp(max_results.n), lines)

\* After query is read (retrieve.py:37-40).
retrieve_query(arguments, query, lines) ==
    IF query = <<>>
    THEN [raised |-> FALSE, result |-> failure("retrieve", "missing_query")]
    ELSE retrieve_limit(query,
                        int_of(py_or(_get_attr(arguments, "max_results", PyNone),
                                     PyInt(SettingsMaxResults))),
                        lines)

\* RetrieveTool.run(arguments), the files holding lines lines that match.
retrieve_run(arguments, lines) ==
    retrieve_query(arguments,
                   strip(str_text(_get_attr(arguments, "query", PyStr(<<>>)))),
                   lines)

\* The query argument: left out, empty, blank, a word, None, a number.
QueryValues ==
    {Absent, PyStr(<<>>), PyStr(<<" ">>), PyStr(<<"hello">>), PyNone, PyInt(5)}

\* The max_results argument: left out, None, numbers, the string of a
\* number, a string that is no number, a list, a mapping.
MaxResultsValues ==
    {Absent, PyNone, PyInt(0), PyInt(3), PyInt(9), PyStr(<<"3">>), PyStr(<<"abc">>),
     PyList(<<PyInt(1)>>), PyDict("a" :> PyInt(1))}

RetrieveArguments ==
    {PyDict(Fields("query" :> q @@ "max_results" :> mr)) :
        q \in QueryValues, mr \in MaxResultsValues}

\* How many lines of the files match a query.
MatchingLines == {0, 2, 7}

\* RetrieveTool.run is called and ends (it awaits nothing).
RetrieveRun ==
    /\ rt_out = NoOutcome
    /\ \E lines \in MatchingLines : rt_out' = retrieve_run(rt_args, lines)
    /\ UNCHANGED <<shared, runner, executor, evals, normalizer, client, registrar,
                   built_in, built, rt_args>>

RetrieveInit ==
    /\ registry = Tools
    /\ policy = [allowed_tools |-> NoAllowList, denied_tools |-> {}, max_calls |-> 0]
    /\ max_steps = 0
    /\ auth = [r \in Runs |-> NoAuth]
    /\ RunnerIdle({})
    /\ EvalIdle
    /\ payload = PyNone
    /\ extracted = Extracted(<<>>, <<>>)
    /\ norm_done = FALSE
    /\ cl_pc = "Idle"
    /\ cl_log = <<>>
    /\ cl_response = NoClientResponse
    /\ reg_log = <<>>
    /\ reg_last = NoRegistryCall
    /\ built_in = NoBuild
    /\ built = NoToolResult
    /\ rt_args \in RetrieveArguments
    /\ rt_out = NoOutcome

RetrieveNext == RetrieveRun

RetrieveSpec == RetrieveInit /\ [][RetrieveNext]_vars

\* ================================================================== claims

\* ------------------------------------------------------------------ C4

\* The five checks of the policy in the order the claim gives them, each with
\* the reason of its denial.
C4_Checks(p, spec, au, cc) ==
    << [fails |-> cc >= p.max_calls,
        reason |-> "tool_call_limit_reached"],
       [fails |-> spec.name \in p.denied_tools,
        reason |-> "tool_denied"],
       [fails |-> p.allowed_tools.configured /\ spec.name \notin p.allowed_tools.names,
        reason |-> "tool_not_allowed"],
       [fails |-> spec.scopes # {} /\ ~au.present,
        reason |-> "missing_auth_context"],
       [fails |-> spec.scopes # {} /\ spec.scopes \cap au.scopes = {},
        reason |-> "missing_required_scope"] >>

C4_Failing(checks) == {i \in DOMAIN checks : checks[i].fails}

C4_Expected(checks) ==
    IF C4_Failing(checks) = {}
    THEN Decision(TRUE, NoneId)
    ELSE LET first == CHOOSE i \in C4_Failing(checks) :
                          \A j \in C4_Failing(checks) : i <= j
         IN Decision(FALSE, checks[first].reason)

\* C4: evaluate returns the denial of the first failing check in the order
\* budget, deny list, allow list, missing auth, missing scope, and allows only
\* when no check fails.
C4_FirstFailingCheckWins ==
    ev_n >= 1 =>
        ev_last = C4_Expected(C4_Checks(policy, ev_in.spec, ev_in.auth, ev_in.call_count))

\* Several checks fail at once (deny list, allow list, scope) and the earliest
\* of them, the deny list, gives the reason.
C4_Witness ==
    /\ ev_n >= 1
    /\ {2, 3, 5} \subseteq
           C4_Failing(C4_Checks(policy, ev_in.spec, ev_in.auth, ev_in.call_count))
    /\ ev_last = Decision(FALSE, "tool_denied")

\* ------------------------------------------------------------------ C5

RoundOpen(r) == pc[r] \in {"Executing", "AwaitTool"}

\* The positions of the assistant messages of a conversation.
Assistants(m) == {j \in DOMAIN m : m[j].role = "assistant"}

\* The number of tool messages of a conversation.
ToolMessageCount(m) == Cardinality({j \in DOMAIN m : m[j].role = "tool"})

\* The number of tool calls the first k assistant messages of m carry.
RECURSIVE IssuedIn(_, _)
IssuedIn(m, k) ==
    IF m = <<>> \/ k = 0
    THEN 0
    ELSE IF Head(m).role = "assistant"
    THEN Len(Head(m).tool_calls) + IssuedIn(Tail(m), k - 1)
    ELSE IssuedIn(Tail(m), k)

\* Call i of the round at loop step s of run r reached tool.run.
Invoked(r, s, i) ==
    \E k \in DOMAIN invocations[r] :
        invocations[r][k].step = s /\ invocations[r][k].idx = i

DenialReasons ==
    {"tool_call_limit_reached", "tool_denied", "tool_not_allowed",
     "missing_auth_context", "missing_required_scope"}

\* The position in conversation m of its k-th assistant message.
AssistantAt(m, k) ==
    CHOOSE j \in Assistants(m) : Cardinality({a \in Assistants(m) : a <= j}) = k

\* ------------------------------------------------------------------ C1

\* C1: every assistant message carrying calls c1..cn is followed, once its
\* round is over, by exactly n tool messages, the i-th with tool_call_id =
\* ci.id; and when a round is over its tool messages carry, in order, the
\* contents of the results execute returned, failures included.
C1_ToolMessagePerCall ==
    \A r \in Runs :
        LET m == messages[r] IN
        /\ \A j \in Assistants(m) :
             LET calls == m[j].tool_calls
                 n == Len(calls)
                 last == \A k \in Assistants(m) : k <= j
             IN
               /\ n >= 1
               /\ IF RoundOpen(r) /\ last
                  THEN j = Len(m)
                  ELSE /\ j + n <= Len(m)
                       /\ \A i \in 1..n :
                            /\ m[j + i].role = "tool"
                            /\ m[j + i].tool_call_id = calls[i].id
                       /\ j + n < Len(m) => m[j + n + 1].role # "tool"
        /\ (~RoundOpen(r) /\ response[r].tool_calls # <<>>) =>
             LET calls == response[r].tool_calls
                 n == Len(calls)
                 j == Len(m) - n
             IN
               /\ j >= 1
               /\ m[j].role = "assistant"
               /\ m[j].tool_calls = calls
               /\ Len(ex_results[r]) = n
               /\ \A i \in 1..n :
                    /\ m[j + i].role = "tool"
                    /\ m[j + i].tool_call_id = calls[i].id
                    /\ m[j + i].content = ex_results[r][i].content

\* A round of two calls with different ids is over, the first call failed and
\* the second succeeded, and both have their tool message.
C1_Witness ==
    \E r \in Runs :
        /\ pc[r] = "Requesting"
        /\ Len(response[r].tool_calls) = 2
        /\ response[r].tool_calls[1].id # response[r].tool_calls[2].id
        /\ Len(ex_results[r]) = 2
        /\ ~ex_results[r][1].ok
        /\ ex_results[r][2].ok
        /\ ToolMessageCount(messages[r]) = 2

\* ------------------------------------------------------------------ C2

\* C2: in a run, tool.run is invoked at most max_calls times; each invocation
\* was allowed at a count below max_calls, and that count is the number of
\* calls the run had counted before it, over all its rounds.
C2_InvocationsWithinBudget ==
    \A r \in Runs :
        /\ Len(invocations[r]) <= policy.max_calls
        /\ \A k \in DOMAIN invocations[r] :
             LET inv == invocations[r][k] IN
             /\ inv.call_count < policy.max_calls
             /\ inv.call_count = IssuedIn(messages[r], inv.step) + inv.idx - 1

\* In a later round, with the budget used up by an earlier round, a call to
\* a registered tool is refused for the limit.
C2_Witness ==
    \E r \in Runs :
        /\ policy.max_calls >= 1
        /\ Len(invocations[r]) = policy.max_calls
        /\ step[r] >= 1
        /\ RoundOpen(r)
        /\ \E i \in DOMAIN ex_results[r] :
               ex_results[r][i].error = "tool_call_limit_reached"

\* ------------------------------------------------------------------ C3

\* C3: every invocation of tool.run was of a registered tool that the policy
\* allowed for the run's auth at the count of that moment; and a call of the
\* current batch that got tool_not_found or a denial was not invoked.
C3_ExecutionIsPolicyGated ==
    \A r \in Runs :
        /\ \A k \in DOMAIN invocations[r] :
             LET inv == invocations[r][k]
                 tool == get(registry, inv.name)
             IN
               /\ tool # NoTool
               /\ inv.tool = tool.name
               /\ evaluate(policy, tool, auth[r], inv.call_count).allow
        /\ RoundOpen(r) =>
             \A i \in DOMAIN ex_results[r] :
                 LET call == response[r].tool_calls[i]
                     tool == get(registry, call.name)
                 IN
                   (\/ tool = NoTool
                    \/ ~evaluate(policy, tool, auth[r], call_count[r] + i - 1).allow)
                   => ~Invoked(r, step[r], i)

\* In one batch a denied call was skipped and the next call was run.
C3_Witness ==
    \E r \in Runs :
        /\ pc[r] = "Executing"
        /\ Len(ex_results[r]) = 2
        /\ ex_results[r][1].error \in DenialReasons
        /\ ex_results[r][2].ok
        /\ ~Invoked(r, step[r], 1)
        /\ Invoked(r, step[r], 2)

\* ------------------------------------------------------------------ C6

\* out is text without its leading and trailing whitespace.
C6_IsTrimOf(out, text) ==
    \E a, b \in 0..Len(text) :
        /\ a + b <= Len(text)
        /\ out = SubSeq(text, a + 1, Len(text) - b)
        /\ \A i \in 1..a : text[i] \in Whitespace
        /\ \A i \in (Len(text) - b + 1)..Len(text) : text[i] \in Whitespace
        /\ out # <<>> => (out[1] \notin Whitespace /\ out[Len(out)] \notin Whitespace)

\* C6: when the k-th response is the first without tool calls, the run is done
\* with output = the trimmed text, steps = k (1 <= k <= max_steps) and
\* tool_calls_executed = the calls of the k-1 earlier rounds; the run made k
\* model requests, was issued no further batch and invoked tools in earlier
\* rounds only.
C6_FinalAnswer ==
    \A r \in Runs :
        (pc[r] = "Done" /\ response[r].text # None /\ response[r].tool_calls = <<>>) =>
            LET k == Cardinality(Assistants(messages[r])) + 1 IN
            /\ 1 <= k /\ k <= max_steps
            /\ C6_IsTrimOf(result[r].output, response[r].text)
            /\ result[r].steps = k
            /\ result[r].tool_calls_executed = IssuedIn(messages[r], k - 1)
            /\ requests[r] = k
            /\ issued[r] = IssuedIn(messages[r], k - 1)
            /\ \A i \in DOMAIN invocations[r] : invocations[r][i].step < k - 1

\* The second response is the final one, its padded text is trimmed, and the
\* two calls of the first round are counted.
C6_Witness ==
    \E r \in Runs :
        /\ pc[r] = "Done"
        /\ response[r] = ModelResponse(<<" ", "d", "\n">>, <<>>)
        /\ result[r] = AgentResult(<<"d">>, 2, 2)

\* ------------------------------------------------------------------ C7

\* C7: once max_steps responses have carried tool calls the run is executing
\* the last batch, about to leave the loop, or done; it is never awaiting the
\* model or faulted; where it stands before the loop test only the exit is
\* open; and done, its result is ("", max_steps, all calls issued), the calls
\* of the last round executed (each with its tool message) and counted.
C7_Exhaustion ==
    \A r \in Runs :
        (pc[r] \notin {"Off", "Idle"} /\ Cardinality(Assistants(messages[r])) = max_steps) =>
            /\ pc[r] \in {"Executing", "AwaitTool", "Requesting", "Done"}
            /\ pc[r] = "Requesting" => (ENABLED Exhausted(r) /\ ~ENABLED RequestModel(r))
            /\ pc[r] = "Done" =>
                 /\ result[r] =
                        AgentResult(<<>>, max_steps, IssuedIn(messages[r], max_steps))
                 /\ ToolMessageCount(messages[r]) = IssuedIn(messages[r], max_steps)
                 /\ call_count[r] = IssuedIn(messages[r], max_steps)
                 /\ requests[r] = max_steps

\* Two rounds of one tool call each used up max_steps = 2.
C7_Witness ==
    \E r \in Runs :
        /\ pc[r] = "Done"
        /\ max_steps = 2
        /\ Cardinality(Assistants(messages[r])) = 2
        /\ result[r] = AgentResult(<<>>, 2, 2)

\* ------------------------------------------------------------------ C8

\* C8: a run calls client.complete at most max_steps times.
C8_AtMostMaxStepsRequests == \A r \in Runs : requests[r] <= max_steps

\* A run that made all its max_steps >= 2 requests and is done.
C8_Witness ==
    \E r \in Runs : pc[r] = "Done" /\ max_steps >= 2 /\ requests[r] = max_steps

\* ------------------------------------------------------------------ C9

\* C9: while execute runs, its results are one per call processed, in call
\* order (all n when its loop is over), and result i is the outcome of call i:
\* tool_not_found for an unregistered name, the policy's denial for a denied
\* call, and what tool.run returned, or tool_execution_failed, for an invoked
\* one; the failures execute builds carry the call's name.
C9_OneResultPerCall ==
    \A r \in Runs :
        RoundOpen(r) =>
            LET calls == response[r].tool_calls
                res == ex_results[r]
            IN
              /\ Len(res) = ex_idx[r] - 1
              /\ Len(res) <= Len(calls)
              /\ (pc[r] = "Executing" /\ ex_idx[r] > Len(calls)) => Len(res) = Len(calls)
              /\ \A i \in DOMAIN res :
                   LET call == calls[i]
                       tool == get(registry, call.name)
                       decision == evaluate(policy, tool, auth[r], call_count[r] + i - 1)
                   IN
                     IF tool = NoTool
                     THEN res[i] = failure(call.name, "tool_not_found")
                     ELSE IF ~Invoked(r, step[r], i)
                     THEN ~decision.allow /\ res[i] = failure(call.name, decision.reason)
                     ELSE res[i] \in ToolReturns(call.name)
                                     \cup {failure(call.name, "tool_execution_failed")}

\* execute's loop is over a batch of an unregistered call and a succeeding one.
C9_Witness ==
    \E r \in Runs :
        /\ pc[r] = "Executing"
        /\ Len(response[r].tool_calls) = 2
        /\ ex_idx[r] = 3
        /\ ex_results[r][1].error = "tool_not_found"
        /\ ex_results[r][2].ok

\* ------------------------------------------------------------------ C10

\* What run r's coroutine holds of the executor and of its own position.
C10_Position(r) == <<pc[r], ex_idx[r], ex_results[r], ex_count[r], result[r]>>

\* C10: a step of a run whose current call names no registered tool records
\* failure(name, tool_not_found), raises the count by one, and leaves the run
\* inside execute at the next call: neither the batch nor the run ends.
C10_UnknownToolIsCounted ==
    [][ \A r \in Runs :
          (/\ InLoop(r)
           /\ get(registry, CurrentCall(r).name) = NoTool
           /\ C10_Position(r)' # C10_Position(r))
          => /\ ex_results'[r] =
                    Append(ex_results[r], failure(CurrentCall(r).name, "tool_not_found"))
             /\ ex_results'[r][ex_idx[r]].content
                    = <<"{\"error\": \"", "tool_not_found", "\"}">>
             /\ ex_count'[r] = ex_count[r] + 1
             /\ ex_idx'[r] = ex_idx[r] + 1
             /\ pc'[r] = "Executing"
             /\ result'[r] = NoResult ]_vars

\* After a batch whose first call was unregistered, the second call was
\* processed too and the run went on to its next model request.
C10_Witness ==
    \E r \in Runs :
        /\ pc[r] = "AwaitModel"
        /\ step[r] >= 1
        /\ Len(ex_results[r]) = 2
        /\ ex_results[r][1].error = "tool_not_found"
        /\ call_count[r] = 2

\* ------------------------------------------------------------------ C11

\* C11: an invocation whose tool.run raised left, at its call's place among
\* execute's results, failure(name, tool_execution_failed); the run did not
\* fault on it (a faulted run faulted on a later model request); execute goes
\* on to the calls that remain; and once the round is over every call of the
\* batch has its tool message, the raised one's carrying that error, and the
\* run stands at, or is past, its next pass of the loop.
C11_ToolFaultIsCaptured ==
    \A r \in Runs :
        /\ (pc[r] = "Executing" /\ InLoop(r)) =>
               ENABLED (CallNotFound(r) \/ CallDenied(r) \/ CallInvoke(r))
        /\ \A k \in DOMAIN invocations[r] :
             LET inv == invocations[r][k] IN
             inv.outcome = "raised" =>
               /\ pc[r] = "Faulted" => requests[r] >= inv.step + 2
               /\ IF inv.step = step[r]
                  THEN /\ RoundOpen(r)
                       /\ inv.idx <= Len(ex_results[r])
                       /\ ex_results[r][inv.idx] =
                              [name |-> inv.name, ok |-> FALSE,
                               content |-> <<"{\"error\": \"", "tool_execution_failed", "\"}">>,
                               data |-> None, error |-> "tool_execution_failed"]
                  ELSE LET m == messages[r]
                           j == AssistantAt(m, inv.step + 1)
                           n == Len(m[j].tool_calls)
                       IN
                         /\ step[r] > inv.step
                         /\ pc[r] = "Requesting" \/ requests[r] >= inv.step + 2
                                \/ (pc[r] = "Done" /\ step[r] = max_steps)
                         /\ j + n <= Len(m)
                         /\ \A i \in 1..n : m[j + i].role = "tool"
                         /\ m[j + inv.idx].tool_call_id = inv.id
                         /\ m[j + inv.idx].content =
                                <<"{\"error\": \"", "tool_execution_failed", "\"}">>

\* The first call of a batch of two raised, the second was run and returned,
\* and the run is at its next model request.
C11_Witness ==
    \E r \in Runs :
        /\ pc[r] = "AwaitModel"
        /\ step[r] = 1
        /\ Len(invocations[r]) = 2
        /\ invocations[r][1].outcome = "raised"
        /\ invocations[r][2].outcome = "returned"
        /\ ex_results[r][1].error = "tool_execution_failed"
        /\ ex_results[r][2].ok

\* ------------------------------------------------------------------ C12

\* The content of a failure for reason: the JSON text {"error": "<reason>"}.
C12_ErrorContent(reason) == <<"{\"error\": \"", reason, "\"}">>

\* C12: a call to a registered tool that the policy denies gets, at its place
\* among execute's results, a failure whose content is {"error": <the reason
\* of the denial>}; every processed call, denied ones included, has raised
\* execute's count by one; and once the round is over the tool message of a
\* denied call carries that very content and the run's count has grown by the
\* size of the batch.
C12_DenialIsReported ==
    \A r \in Runs :
        /\ RoundOpen(r) =>
             /\ ex_count[r] = call_count[r] + Len(ex_results[r])
                                + (IF pc[r] = "AwaitTool" THEN 1 ELSE 0)
             /\ \A i \in DOMAIN ex_results[r] :
                  LET call == response[r].tool_calls[i]
                      tool == get(registry, call.name)
                      decision == evaluate(policy, tool, auth[r], call_count[r] + i - 1)
                  IN
                    (tool # NoTool /\ ~decision.allow) =>
                        /\ decision.reason \in DenialReasons
                        /\ ex_results[r][i] =
                               [name |-> call.name, ok |-> FALSE,
                                content |-> C12_ErrorContent(decision.reason),
                                data |-> None, error |-> decision.reason]
        /\ (~RoundOpen(r) /\ response[r].tool_calls # <<>>) =>
             LET calls == response[r].tool_calls
                 n == Len(calls)
                 m == messages[r]
                 j == Len(m) - n
                 before == IssuedIn(m, step[r] - 1)
             IN
               /\ call_count[r] = before + n
               /\ \A i \in 1..n :
                    LET tool == get(registry, calls[i].name)
                        decision == evaluate(policy, tool, auth[r], before + i - 1)
                    IN
                      (tool # NoTool /\ ~decision.allow) =>
                          /\ m[j + i].role = "tool"
                          /\ m[j + i].tool_call_id = calls[i].id
                          /\ m[j + i].content = C12_ErrorContent(decision.reason)
                          /\ m[j + i].content = ex_results[r][i].content

\* The allow set is {admin} and the model asked for retrieve: the round is
\* over, its tool message says tool_not_allowed and the call was counted.
C12_Witness ==
    \E r \in Runs :
        /\ pc[r] = "Requesting"
        /\ policy.allowed_tools = AllowList({"admin"})
        /\ policy.max_calls >= 1
        /\ response[r].tool_calls = <<[id |-> "call_0", name |-> "retrieve"]>>
        /\ messages[r][Len(messages[r])].content
               = <<"{\"error\": \"", "tool_not_allowed", "\"}">>
        /\ call_count[r] = 1

\* ------------------------------------------------------------------ C13

\* The text and the names of the tool calls that each payload of the
\* transports stands for.
C13_Text(p) ==
    CASE p = TextPayload -> <<"d">>
      [] p = ChatPayload -> <<"hi">>
      [] OTHER -> <<>>
C13_Names(p) ==
    CASE p = CallPayload -> <<"retrieve">>
      [] p = ChatCallsPayload -> <<"admin", "ghost">>
      [] p = BareCallsPayload -> <<"retrieve", "ghost">>
      [] OTHER -> <<>>

\* C13: the ModelResponse complete returned is made of the payload of one
\* transport call, the last: raw is that payload, text and tool_calls are what
\* it stands for.  It is the first call's when that payload is not empty, and
\* the second call's otherwise, empty or not; and run works on that text and
\* those tool calls.
C13_FallbackResult ==
    cl_response # NoClientResponse =>
        LET last == cl_log[Len(cl_log)]
            primary == cl_log[1]
            primary_empty == C13_Text(primary.payload) = <<>>
                                /\ C13_Names(primary.payload) = <<>>
        IN
          /\ Len(cl_log) \in {1, 2}
          /\ \A i \in DOMAIN cl_log : cl_log[i].outcome = "returned"
          /\ Len(cl_log) = (IF primary_empty THEN 2 ELSE 1)
          /\ cl_response.raw = last.payload
          /\ cl_response.text = C13_Text(last.payload)
          /\ Len(cl_response.tool_calls) = Len(C13_Names(last.payload))
          /\ \A i \in DOMAIN cl_response.tool_calls :
                 cl_response.tool_calls[i].name = C13_Names(last.payload)[i]
          /\ cl_pc = "Idle" =>
                 /\ response["r1"].text = cl_response.text
                 /\ response["r1"].tool_calls = cl_response.tool_calls

\* The first transport returned a payload of no recognizable shape, the
\* second a chat completion saying "hi": complete returned "hi".
C13_Witness ==
    /\ cl_pc = "Returned"
    /\ Len(cl_log) = 2
    /\ cl_log[1].payload = ShapelessPayload
    /\ cl_log[2].payload = ChatPayload
    /\ cl_response = ClientResponse(<<"hi">>, <<>>, ChatPayload)

\* ------------------------------------------------------------------ C14

\* The payloads whose normalized result is empty: no text (or blank text
\* only) and no tool call.
C14_EmptyPayloads == {ShapelessPayload, BlankPayload}

\* C14: one complete calls aresponses first and at most one transport more,
\* acompletion, never a third; acompletion is called exactly when aresponses
\* returned a payload whose normalized result is empty, and by then
\* aresponses is over.
C14_SecondaryIffPrimaryEmpty ==
    /\ Len(cl_log) <= 2
    /\ cl_log # <<>> => cl_log[1].transport = "aresponses"
    /\ Len(cl_log) = 2 =>
          /\ cl_log[2].transport = "acompletion"
          /\ cl_log[1].outcome = "returned"
          /\ cl_log[1].payload \in C14_EmptyPayloads
    /\ (cl_log # <<>> /\ cl_log[1].outcome = "returned"
                      /\ cl_log[1].payload \in C14_EmptyPayloads)
          => Len(cl_log) = 2
    /\ (cl_pc = "AwaitPrimary") = (cl_log # <<>> /\ cl_log[1].outcome = "pending")
    /\ (cl_pc = "AwaitSecondary") = (Len(cl_log) = 2 /\ cl_log[2].outcome = "pending")
    /\ cl_pc \in {"Returned", "Raised"} => ~ENABLED CallPrimary("r1")

\* A complete that called both transports and returned: the first payload's
\* only text was blank.
C14_Witness ==
    /\ cl_pc = "Returned"
    /\ Len(cl_log) = 2
    /\ cl_log[1].payload = BlankPayload
    /\ cl_log[2].outcome = "returned"

\* ------------------------------------------------------------------ C15

\* C15: after a transport raised, no other transport call follows in that
\* complete, complete has raised and returned no ModelResponse, and the run
\* that awaited it has no AgentResult: it is about to fault, with nothing
\* else open to it, or has faulted and does nothing more.
C15_TransportFaultPropagates ==
    \A i \in DOMAIN cl_log :
        cl_log[i].outcome = "raised" =>
            /\ i = Len(cl_log)
            /\ cl_pc = "Raised"
            /\ cl_response = NoClientResponse
            /\ pc["r1"] \in {"AwaitModel", "Faulted"}
            /\ result["r1"] = NoResult
            /\ pc["r1"] = "AwaitModel" =>
                   (ENABLED CompleteRaises("r1") /\ ~ENABLED CompleteReturns("r1"))
            /\ pc["r1"] = "Faulted" => ~ENABLED ClientNext

\* In its second round a run faulted on a fault of the second transport.
C15_Witness ==
    /\ pc["r1"] = "Faulted"
    /\ requests["r1"] = 2
    /\ Len(cl_log) = 2
    /\ cl_log[1].outcome = "returned"
    /\ cl_log[2].outcome = "raised"

\* ------------------------------------------------------------------ C16

\* A payload that holds nothing of a known shape: None, or a mapping whose
\* output is no list with items, without output_text, whose text is no
\* string and whose choices is no list.
C16_NothingUsable(p) ==
    \/ p = PyNone
    \/ /\ p.kind = "dict"
       /\ "output" \in DOMAIN p.fields =>
            \/ p.fields["output"].kind # "list"
            \/ p.fields["output"].items = <<>>
       /\ "output_text" \notin DOMAIN p.fields
       /\ "text" \in DOMAIN p.fields => p.fields["text"].kind = "int"
       /\ "choices" \in DOMAIN p.fields => p.fields["choices"].kind # "list"

\* C16: _extract_response_payload never raises, and on a payload that holds
\* nothing of a known shape (its output, text or choices of an unexpected
\* kind included) it returns the empty text and no tool calls.
C16_NormalizerIsTotal ==
    norm_done =>
        /\ ~extracted.raised
        /\ C16_NothingUsable(payload) => extracted = Extracted(<<>>, <<>>)

\* ------------------------------------------------------------------ C17

\* The output list with the one standalone tool call of raw arguments a.
C17_OneCall(a) == PyDict("output" :> PyList(<<BareCall("retrieve", a)>>))

\* The raw arguments values that must give the empty mapping: a string that
\* does not parse, a number, no arguments at all.
C17_GivesEmpty == {PyStr(<<"{", "bad">>), PyInt(7), Absent}

\* C17: the arguments of every extracted ToolCall is a mapping; for the one
\* tool call of raw arguments a, parsing does not raise, a mapping is passed
\* on as it is, the string of an object gives that object, and a string that
\* does not parse or a value that is neither string nor mapping gives the
\* empty mapping.
C17_ArgumentsIsMapping ==
    norm_done =>
        /\ \A i \in DOMAIN extracted.tool_calls :
             extracted.tool_calls[i].arguments.kind = "dict"
        /\ \A a \in ArgumentValues :
             payload = C17_OneCall(a) =>
                /\ ~extracted.raised
                /\ Len(extracted.tool_calls) = 1
                /\ a \in C17_GivesEmpty =>
                     extracted.tool_calls[1].arguments = PyDict(NoFields)
                /\ a.kind = "dict" => extracted.tool_calls[1].arguments = a
                /\ a = PyStr(<<"{", "\"query\"", ":", "\"hello\"", "}">>) =>
                     extracted.tool_calls[1].arguments
                        = PyDict("query" :> PyStr(<<"hello">>))

\* ------------------------------------------------------------------ C18

\* The identifiers the backend gives in the payloads tried.
C18_BackendIds == {"c1", "x"}

\* No item of the payload's output carries an identifier of the backend.
C18_NoneGiven(p) ==
    /\ p.kind = "dict"
    /\ "output" \in DOMAIN p.fields
    /\ p.fields["output"].kind = "list"
    /\ \A k \in DOMAIN p.fields["output"].items :
         LET item == p.fields["output"].items[k] IN
           /\ item.kind = "dict" => {"call_id", "id"} \cap DOMAIN item.fields = {}
           /\ item.kind = "obj" => {"call_id", "id"} \cap DOMAIN item.attrs = {}

\* call_<index> for the positions a payload's calls can have.
C18_Synthesized(n) == {"call_" \o ToString(k) : k \in 0..(n - 1)}

\* C18: the id of every extracted ToolCall is the backend's identifier or
\* call_<index>; with a backend identifier on the item it is that one,
\* call_id before id; and the ids extracted from one payload whose calls all
\* lack a backend identifier are pairwise distinct.
C18_IdsIdentifyCalls ==
    (norm_done /\ ~extracted.raised) =>
        /\ \A i \in DOMAIN extracted.tool_calls :
             extracted.tool_calls[i].id
                \in C18_BackendIds \cup C18_Synthesized(Len(extracted.tool_calls))
        /\ payload = PyDict("output" :> PyList(<<IdentifiedCall(PyStr(<<"c1">>), PyStr(<<"x">>))>>))
             => extracted.tool_calls[1].id = "c1"
        /\ payload = PyDict("output" :> PyList(<<IdentifiedCall(Absent, PyStr(<<"x">>))>>))
             => extracted.tool_calls[1].id = "x"
        /\ C18_NoneGiven(payload) =>
             \A i, j \in DOMAIN extracted.tool_calls :
                i # j => extracted.tool_calls[i].id # extracted.tool_calls[j].id

\* ------------------------------------------------------------------ C19

\* The tools of a log that were the first of their name, in order.
RECURSIVE C19_FirstByName(_)
C19_FirstByName(log) ==
    IF log = <<>>
    THEN <<>>
    ELSE LET earlier == C19_FirstByName(SubSeq(log, 1, Len(log) - 1))
             tool == log[Len(log)]
         IN IF \E i \in 1..(Len(log) - 1) : log[i].name = tool.name
            THEN earlier
            ELSE Append(earlier, tool)

\* C19: register raises exactly when the name is already registered and then
\* leaves the registry as it was; after any register and register_all calls
\* every name is bound once, to the first tool registered under it.
C19_DuplicateNameRejected ==
    /\ registry = C19_FirstByName(reg_log)
    /\ \A i, j \in 1..Len(registry) : registry[i].name = registry[j].name => i = j
    /\ reg_last.op = "register" =>
         /\ reg_last.raised
              <=> \E i \in 1..Len(reg_last.before) :
                     reg_last.before[i].name = reg_last.tools[1].name
         /\ reg_last.raised => registry = reg_last.before
    /\ (reg_last.op = "register_all" /\ reg_last.raised) =>
         \A i \in 1..Len(reg_last.before) : registry[i] = reg_last.before[i]

\* register was refused for a tool other than the one holding the name,
\* which still holds it.
C19_Witness ==
    /\ reg_last.op = "register"
    /\ reg_last.raised
    /\ Len(registry) = 2
    /\ get(registry, reg_last.tools[1].name) # reg_last.tools[1]
    /\ get(registry, reg_last.tools[1].name) = reg_log[1]

\* ------------------------------------------------------------------ C20

\* The specs a caller with auth context au is to see.
C20_Visible(spec, au) ==
    IF ~au.present \/ au.scopes = {}
    THEN spec.scopes = {}
    ELSE spec.scopes = {} \/ \E sc \in spec.scopes : sc \in au.scopes

\* Where the spec named n stands in reg.
C20_Position(reg, n) == CHOOSE i \in 1..Len(reg) : reg[i].name = n

\* C20: list_specs(auth) leaves the registry as it was and returns each
\* visible spec of the registry once, nothing else, in registration order.
C20_ListSpecsFilters ==
    reg_last.op = "list_specs" =>
        /\ registry = reg_last.before
        /\ \A i \in 1..Len(reg_last.specs) :
             /\ \E k \in 1..Len(registry) : registry[k] = reg_last.specs[i]
             /\ C20_Visible(reg_last.specs[i], reg_last.auth)
        /\ \A k \in 1..Len(registry) :
             C20_Visible(registry[k], reg_last.auth)
                => \E i \in 1..Len(reg_last.specs) : reg_last.specs[i] = registry[k]
        /\ \A i, j \in 1..Len(reg_last.specs) :
             i < j => C20_Position(registry, reg_last.specs[i].name)
                        < C20_Position(registry, reg_last.specs[j].name)

\* A caller holding s1 listed a registry of a public tool, a tool of s2 and
\* a tool of s1 and s2, and saw the first and the last.
C20_Witness ==
    /\ reg_last.op = "list_specs"
    /\ reg_last.auth = AuthContext({"s1"})
    /\ Len(registry) = 3
    /\ registry[1].scopes = {}
    /\ registry[2].scopes = {"s2"}
    /\ registry[3].scopes = {"s1", "s2"}
    /\ reg_last.specs = <<registry[1], registry[3]>>

\* ------------------------------------------------------------------ C21

\* The tool.run calls of run r that have not ended.
C21_InFlight(r) ==
    {k \in DOMAIN invocations[r] : invocations[r][k].outcome = "pending"}

\* C21: a run is either in its model request or in its tool batch.  While
\* complete is under way no tool.run is in flight and every call issued so far
\* has its result and its tool message; while the batch is under way complete
\* is over and the response that asked for the batch is the one received,
\* already recorded as the latest assistant message; and at most one tool.run
\* is in flight, the call execute stands at.
C21_PhasesAlternate ==
    \A r \in Runs :
        LET m == messages[r] IN
        /\ Cardinality(C21_InFlight(r)) <= 1
        /\ C21_InFlight(r) # {} <=> pc[r] = "AwaitTool"
        /\ C21_InFlight(r) # {} => C21_InFlight(r) = {Len(invocations[r])}
        /\ cl_pc \in {"AwaitPrimary", "AwaitSecondary", "Returned"} => pc["r1"] = "AwaitModel"
        /\ pc[r] = "AwaitModel" =>
             /\ ToolMessageCount(m) = issued[r]
             /\ m[Len(m)].role \in {"user", "tool"}
             /\ ex_idx[r] = 1 \/ ex_idx[r] = Len(response[r].tool_calls) + 1
             /\ Len(ex_results[r]) \in {0, Len(response[r].tool_calls)}
        /\ RoundOpen(r) =>
             /\ cl_pc = "Idle"
             /\ response[r].tool_calls # <<>>
             /\ response[r].tool_calls = cl_response.tool_calls
             /\ m[Len(m)].role = "assistant"
             /\ m[Len(m)].tool_calls = response[r].tool_calls
             /\ Len(ex_results[r]) = ex_idx[r] - 1
             /\ ToolMessageCount(m) = issued[r] - Len(response[r].tool_calls)

\* The second model request of a run is under way, after a batch of two
\* calls of which one reached its tool.
C21_Witness ==
    /\ pc["r1"] = "AwaitModel"
    /\ cl_pc = "AwaitPrimary"
    /\ requests["r1"] = 2
    /\ ToolMessageCount(messages["r1"]) = 2
    /\ Len(invocations["r1"]) = 1

\* ------------------------------------------------------------------ C22

\* The calls run r issued before call i of the round at its loop step s.
C22_OwnCallsBefore(r, s, i) == IssuedIn(messages[r], s) + i - 1

\* C22: with two runs interleaving on one runner, executor, policy and
\* registry, the count a call of a run is evaluated with is the number of
\* calls that run issued before it, the limit is reported to a run exactly
\* from its own max_calls-th call on, and the tool_calls_executed a run
\* returns is the number of calls that run issued.
C22_RunsDoNotShareCount ==
    \A r \in Runs :
        /\ \A k \in DOMAIN invocations[r] :
             LET inv == invocations[r][k] IN
               /\ inv.call_count = C22_OwnCallsBefore(r, inv.step, inv.idx)
               /\ inv.call_count < policy.max_calls
        /\ RoundOpen(r) =>
             /\ ex_count[r] = C22_OwnCallsBefore(r, step[r], ex_idx[r])
                                + (IF pc[r] = "AwaitTool" THEN 1 ELSE 0)
             /\ \A i \in DOMAIN ex_results[r] :
                  (~ex_results[r][i].ok
                     /\ ex_results[r][i].error = "tool_call_limit_reached")
                  <=> /\ get(registry, response[r].tool_calls[i].name) # NoTool
                      /\ C22_OwnCallsBefore(r, step[r], i) >= policy.max_calls
        /\ pc[r] \in {"Requesting", "AwaitModel", "Done"} => call_count[r] = issued[r]
        /\ pc[r] = "Done" => result[r].tool_calls_executed = issued[r]

\* Both runs are inside a batch: the first has counted two calls, the second
\* is at its first call, which reached its tool under a limit of one call.
C22_Witness ==
    /\ policy.max_calls = 1
    /\ pc["r1"] = "Executing"
    /\ ex_count["r1"] = 2
    /\ pc["r2"] = "AwaitTool"
    /\ invocations["r2"][Len(invocations["r2"])].call_count = 0
    /\ Len(invocations["r1"]) = 1

\* ------------------------------------------------------------------ C23

\* content reads back as data: it is the JSON document of data.
C23_Renders(content, data) ==
    /\ content # <<>>
    /\ Head(content) = "json:"
    /\ Tail(content) = data

\* C23: a ToolResult built by failure has ok = false, the error code it was
\* given and the content {"error": <that code>}; a ToolResult built by
\* from_data has ok = true, the data it was given and a content that renders
\* that data, whatever the content argument was.
C23_ContentMatchesResult ==
    built # NoToolResult =>
        /\ built.name = built_in.name
        /\ built_in.op = "failure" =>
             /\ ~built.ok
             /\ built.error = built_in.error
             /\ built.content = <<"{\"error\": \"", built_in.error, "\"}">>
        /\ built_in.op = "from_data" =>
             /\ built.ok
             /\ built.data = built_in.data
             /\ C23_Renders(built.content, built.data)

\* ------------------------------------------------------------------ C24

\* The positions of the tool messages of conversation m that refer to id.
C24_Responses(m, id) == {j \in DOMAIN m : m[j].role = "tool" /\ m[j].tool_call_id = id}

\* The identifiers the backend gave are each given to one call of m.
C24_BackendIdsDistinct(m) ==
    \A k1, k2 \in Assistants(m) :
        \A i1 \in DOMAIN m[k1].tool_calls, i2 \in DOMAIN m[k2].tool_calls :
            (m[k1].tool_calls[i1].id = m[k2].tool_calls[i2].id
               /\ m[k1].tool_calls[i1].id \in {"c1", "x"})
            => (k1 = k2 /\ i1 = i2)

\* C24: between rounds, every tool message of the conversation refers to the
\* id of a call of an earlier assistant message, and every call id of an
\* assistant message is referred to by exactly one tool message (the backend
\* not having given one id to two calls).
C24_OneResponsePerCallId ==
    \A r \in Runs :
        LET m == messages[r] IN
        (~RoundOpen(r) /\ C24_BackendIdsDistinct(m)) =>
            /\ \A j \in DOMAIN m :
                 m[j].role = "tool" =>
                    \E k \in Assistants(m) :
                        /\ k < j
                        /\ \E i \in DOMAIN m[k].tool_calls :
                               m[k].tool_calls[i].id = m[j].tool_call_id
            /\ \A k \in Assistants(m) :
                 \A i \in DOMAIN m[k].tool_calls :
                    Cardinality(C24_Responses(m, m[k].tool_calls[i].id)) = 1

\* ------------------------------------------------------------------ C25

\* The query of the arguments is left out or blank.
C25_NoQuery(arguments) ==
    \/ "query" \notin DOMAIN arguments.fields
    \/ arguments.fields["query"] \in {PyStr(<<>>), PyStr(<<" ">>)}

\* C25: RetrieveTool.run does not raise, whatever max_results holds, and
\* without a query it returns the failure missing_query.
C25_RetrieveDoesNotRaise ==
    rt_out # NoOutcome =>
        /\ ~rt_out.raised
        /\ C25_NoQuery(rt_args) => rt_out.result = failure("retrieve", "missing_query")

\* ------------------------------------------------------------------ C26

\* text is empty or all whitespace.
C26_Blank(text) == \A i \in DOMAIN text : text[i] \in Whitespace

\* C26: no assistant message has the empty string as content; while a round
\* is under way the latest message but the round's results is its assistant
\* message, which carries all the calls of the response and, as content, None
\* for a text that is empty after trimming and the trimmed text otherwise; and
\* every call that reached its tool is a call of an assistant message
\* already in the conversation.
C26_AssistantMessageFirst ==
    \A r \in Runs :
        LET m == messages[r] IN
        /\ \A j \in Assistants(m) : m[j].content # <<>> /\ m[j].tool_calls # <<>>
        /\ RoundOpen(r) =>
             /\ m[Len(m)].role = "assistant"
             /\ Cardinality(Assistants(m)) = step[r] + 1
             /\ m[Len(m)].tool_calls = response[r].tool_calls
             /\ C26_Blank(response[r].text) => m[Len(m)].content = None
             /\ ~C26_Blank(response[r].text) =>
                    C6_IsTrimOf(m[Len(m)].content, response[r].text)
        /\ \A k \in DOMAIN invocations[r] :
             LET inv == invocations[r][k] IN
               /\ Cardinality(Assistants(m)) >= inv.step + 1
               /\ inv.idx \in DOMAIN m[AssistantAt(m, inv.step + 1)].tool_calls
               /\ m[AssistantAt(m, inv.step + 1)].tool_calls[inv.idx].id = inv.id
               /\ m[AssistantAt(m, inv.step + 1)].tool_calls[inv.idx].name = inv.name

\* The model sent a blank text with two calls; the assistant message with
\* both calls and no content is the latest message while the first call is at
\* its tool.
C26_Witness ==
    /\ pc["r1"] = "AwaitTool"
    /\ response["r1"].text = <<" ">>
    /\ Len(response["r1"].tool_calls) = 2
    /\ ex_idx["r1"] = 1
    /\ messages["r1"][Len(messages["r1"])].role = "assistant"
    /\ messages["r1"][Len(messages["r1"])].content = None
    /\ Len(messages["r1"][Len(messages["r1"])].tool_calls) = 2

\* ------------------------------------------------------------------ C27

\* The field name of payload p, Absent without it.
C27_Field(p, name) ==
    IF p.kind = "dict" /\ name \in DOMAIN p.fields THEN p.fields[name] ELSE Absent

\* The type of an output item, Absent without one.
C27_Type(item) ==
    IF item.kind = "dict" /\ "type" \in DOMAIN item.fields
    THEN item.fields["type"]
    ELSE Absent

\* The text an output item stands for: the message item says "m", the text
\* item "o", the others nothing.
C27_ItemText(item) ==
    CASE C27_Type(item) = PyStr(<<"message">>) -> <<"m">>
      [] C27_Type(item) = PyStr(<<"text">>) -> <<"o">>
      [] OTHER -> <<>>

\* The names of the tool calls an output item stands for: the two of the
\* message that has tool calls, the one of an item that names a tool.
C27_ItemCalls(item) ==
    CASE C27_Type(item) = PyStr(<<"output_message">>) -> <<"retrieve", "admin">>
      [] item.kind = "dict" /\ "name" \in DOMAIN item.fields -> item.fields["name"].s
      [] item.kind = "obj" -> <<"admin">>
      [] OTHER -> <<>>

RECURSIVE C27_Texts(_)
C27_Texts(items) ==
    IF items = <<>> THEN <<>> ELSE C27_ItemText(Head(items)) \o C27_Texts(Tail(items))

RECURSIVE C27_Calls(_)
C27_Calls(items) ==
    IF items = <<>> THEN <<>> ELSE C27_ItemCalls(Head(items)) \o C27_Calls(Tail(items))

\* The output items of a payload.
C27_Items(p) ==
    IF C27_Field(p, "output").kind = "list" THEN C27_Field(p, "output").items ELSE <<>>

\* The text before the last branch: that of the output items, else the flat
\* output_text, else the text field.
C27_EarlierText(p) ==
    IF C27_Texts(C27_Items(p)) # <<>> THEN C27_Texts(C27_Items(p))
    ELSE IF C27_Field(p, "output_text") = PyStr(<<"flat">>) THEN <<"flat">>
    ELSE IF C27_Field(p, "text") = PyStr(<<"t">>) THEN <<"t">>
    ELSE <<>>

\* The last branch is reached and finds a message under choices[0].
C27_ChoiceUsed(p) ==
    C27_EarlierText(p) = <<>> /\ C27_Field(p, "choices").kind = "list"

\* C27: the text returned is that of the output items if they have any, else
\* the flat output_text, else the text field, else the content of
\* choices[0].message; the tool calls returned are those of the output items,
\* followed by those of choices[0].message only when none of the first three
\* gave a text.
C27_TextCascade ==
    (norm_done /\ ~extracted.raised) =>
        /\ extracted.text = (IF C27_ChoiceUsed(payload) THEN <<"hi">>
                             ELSE C27_EarlierText(payload))
        /\ Len(extracted.tool_calls)
             = Len(C27_Calls(C27_Items(payload)))
                 + (IF C27_ChoiceUsed(payload) THEN 1 ELSE 0)
        /\ \A i \in 1..Len(C27_Calls(C27_Items(payload))) :
             extracted.tool_calls[i].name = C27_Calls(C27_Items(payload))[i]
        /\ C27_ChoiceUsed(payload) =>
             extracted.tool_calls[Len(extracted.tool_calls)].name = "admin"

\* A payload with a message item, a standalone call, a flat output_text, a
\* text field and a chat message gave the item's text and the item's call.
C27_Witness ==
    /\ norm_done
    /\ ~extracted.raised
    /\ Len(C27_Items(payload)) = 2
    /\ C27_Type(payload.fields["output"].items[1]) = PyStr(<<"message">>)
    /\ payload.fields["output"].items[2] = BareCall("retrieve", Absent)
    /\ C27_Field(payload, "output_text") = PyStr(<<"flat">>)
    /\ C27_Field(payload, "text") = PyStr(<<"t">>)
    /\ C27_Field(payload, "choices").kind = "list"
    /\ extracted.text = <<"m">>
    /\ Len(extracted.tool_calls) = 1
    /\ extracted.tool_calls[1].name = "retrieve"

\* ------------------------------------------------------------------ C28

\* The specs handed to the latest model request of run r name the tool.
C28_Offered(r, name) == \E i \in DOMAIN offered[r] : offered[r][i].name = name

\* The tool is public, or the caller has an auth context that shares a scope
\* with it.
C28_InScope(spec, au) ==
    spec.scopes = {} \/ (au.present /\ spec.scopes \cap au.scopes # {})

\* A policy that restricts neither the names nor, at count 0, the calls.
C28_OpenPolicy == [allowed_tools |-> NoAllowList, denied_tools |-> {}, max_calls |-> 1]

\* C28: every tool a run invoked is among the specs list_specs(auth) gave the
\* model for that run; a registered tool is listed for the caller exactly
\* when the tool is in the caller's scope, which is exactly when a policy
\* without limit and name lists allows it; a call to a tool that is not listed
\* is answered by a failure and the tool is not run.
C28_InvokedWereOffered ==
    \A r \in Runs :
        /\ \A k \in DOMAIN invocations[r] : C28_Offered(r, invocations[r][k].tool)
        /\ requests[r] > 0 =>
             \A i \in DOMAIN registry :
                 /\ C28_Offered(r, registry[i].name) <=> C28_InScope(registry[i], auth[r])
                 /\ evaluate(C28_OpenPolicy, registry[i], auth[r], 0).allow
                      <=> C28_InScope(registry[i], auth[r])
        /\ \A j \in DOMAIN messages[r] :
             (messages[r][j].role = "tool" /\ ~C28_Offered(r, messages[r][j].name)) =>
                 \E reason \in DenialReasons \cup {"tool_not_found"} :
                     messages[r][j].content = json_error(reason)

\* A caller whose only scope is not the admin tool's asked for admin and for
\* retrieve: admin was refused for the scope and not run, retrieve was run.
C28_Witness ==
    /\ pc["r1"] = "Done"
    /\ auth["r1"] = AuthContext({"s2"})
    /\ ~C28_Offered("r1", "admin")
    /\ \E j \in DOMAIN messages["r1"] :
         /\ messages["r1"][j].role = "tool"
         /\ messages["r1"][j].name = "admin"
         /\ messages["r1"][j].content = json_error("missing_required_scope")
    /\ \E k \in DOMAIN invocations["r1"] : invocations["r1"][k].tool = "retrieve"
    /\ \A k \in DOMAIN invocations["r1"] : invocations["r1"][k].tool # "admin"

\* ------------------------------------------------------------------ C29

\* The calls of the current batch execute is through with: those before its
\* position, and the one whose tool.run it awaits.
C29_Handled(r) == (ex_idx[r] - 1) + (IF pc[r] = "AwaitTool" THEN 1 ELSE 0)

\* The contents of the tool messages that report a call that ran no tool to
\* its end.
C29_Unsuccessful ==
    {json_error(reason) :
        reason \in DenialReasons \cup {"tool_not_found", "tool_execution_failed"}}

\* C29: inside execute the count is the count it was called with plus the
\* calls handled so far, whatever their outcome; at every model request the
\* run's count is the number of tool messages of the conversation, which is
\* the number of tool calls the model issued; the tool_calls_executed of the
\* result is that number.
C29_CountIsCallsIssued ==
    \A r \in Runs :
        /\ RoundOpen(r) =>
             /\ ex_count[r] = call_count[r] + C29_Handled(r)
             /\ call_count[r] = ToolMessageCount(messages[r])
             /\ Len(ex_results[r]) = ex_idx[r] - 1
        /\ pc[r] \in {"Requesting", "AwaitModel"} =>
             /\ call_count[r] = ToolMessageCount(messages[r])
             /\ call_count[r] = IssuedIn(messages[r], Len(messages[r]))
             /\ call_count[r] = issued[r]
        /\ pc[r] = "Done" =>
             /\ result[r].tool_calls_executed = ToolMessageCount(messages[r])
             /\ result[r].tool_calls_executed = IssuedIn(messages[r], Len(messages[r]))

\* A run under max_calls = 1 ended with tool_calls_executed = 3: of the
\* three calls the model issued only one ran a tool, the others were refused
\* or unknown.
C29_Witness ==
    /\ pc["r1"] = "Done"
    /\ policy.max_calls = 1
    /\ result["r1"].tool_calls_executed = 3
    /\ Len(invocations["r1"]) = 1
    /\ \E j \in DOMAIN messages["r1"] :
         /\ messages["r1"][j].role = "tool"
         /\ messages["r1"][j].content = json_error("tool_call_limit_reached")
    /\ Cardinality({j \in DOMAIN messages["r1"] :
            /\ messages["r1"][j].role = "tool"
            /\ messages["r1"][j].content \in C29_Unsuccessful}) >= 2

\* ------------------------------------------------------------------ C30

\* The names the registry holds a tool under.
C30_Registered == {registry[i].name : i \in DOMAIN registry}

\* C30: the result of a call to a name that is not registered is the failure
\* tool_not_found whatever the count is; the result of a call to a registered
\* tool handled at a count that has reached max_calls is the failure
\* tool_call_limit_reached, whatever the deny list, the allow list and the
\* scopes are, and the tool is not run.
C30_LookupBeforePolicy ==
    \A r \in Runs :
        \A i \in DOMAIN ex_results[r] :
            LET call == response[r].tool_calls[i]
                count == call_count[r] + i - 1
            IN
              /\ call.name \notin C30_Registered =>
                   ex_results[r][i] = failure(call.name, "tool_not_found")
              /\ (call.name \in C30_Registered /\ count >= policy.max_calls) =>
                   /\ ex_results[r][i] = failure(call.name, "tool_call_limit_reached")
                   /\ ~Invoked(r, step[r], i)

\* With the count past max_calls, admin on the deny list and off the allow
\* list and no auth context, the unknown name was answered tool_not_found
\* and admin tool_call_limit_reached.
C30_Witness ==
    /\ policy.max_calls = 1
    /\ call_count["r1"] = 2
    /\ policy.denied_tools = {"admin"}
    /\ policy.allowed_tools = AllowList({"retrieve"})
    /\ auth["r1"] = NoAuth
    /\ Len(ex_results["r1"]) = 2
    /\ response["r1"].tool_calls[1].name = "ghost"
    /\ response["r1"].tool_calls[2].name = "admin"
    /\ ex_results["r1"][1] = failure("ghost", "tool_not_found")
    /\ ex_results["r1"][2] = failure("admin", "tool_call_limit_reached")
    /\ ex_count["r1"] = 4

\* ------------------------------------------------------------------ C31

\* Run r is over: it returned or a fault left it.
C31_Over(r) == pc[r] \in {"Done", "Faulted"}

\* C31: when every model request and every tool invocation ends, the run
\* called ends too, for every max_steps from 0 on and whatever the model
\* answers: it is eventually over and stays so; it has an AgentResult exactly
\* when it returned, none when a fault left it; the result is written once,
\* at the step that returns, and nothing of the run changes afterwards.
C31_RunTerminates ==
    /\ <>[]C31_Over("r1")
    /\ [](\A r \in Runs :
            /\ pc[r] = "Done" <=> result[r] # NoResult
            /\ pc[r] = "Done" => result[r].steps \in 0..max_steps)
    /\ [][\A r \in Runs :
            /\ result'[r] # result[r] =>
                 (result[r] = NoResult /\ ~C31_Over(r) /\ pc'[r] = "Done")
            /\ C31_Over(r) =>
                 (pc'[r] = pc[r] /\ result'[r] = result[r] /\ messages'[r] = messages[r])]_vars

\* A run with max_steps = 2 whose model asked for tools in both rounds, one
\* of them raising, ended with the exhaustion result after two requests.
C31_Witness ==
    /\ pc["r1"] = "Done"
    /\ max_steps = 2
    /\ requests["r1"] = 2
    /\ issued["r1"] = 4
    /\ result["r1"] = AgentResult(<<>>, 2, 4)
    /\ \E k \in DOMAIN invocations["r1"] : invocations["r1"][k].outcome = "raised"

====
